---- MODULE Spec2Model ----
(***************************************************************************)
(* A model of the Jexl expression language: the streaming parser (token by *)
(* token, with nested sub-parsers), the tree-walking evaluator, and the    *)
(* grammar table they share.  The AST lives in an arena `nodes`: a node is *)
(* its index, 0 is JavaScript's null/undefined node reference.             *)
(***************************************************************************)
EXTENDS Integers, Sequences, FiniteSets, TLC

VARIABLES
    profile,   \* which family of token sequences this behaviour explores
    tokens,    \* the tokens handed to Parser.addToken so far
    parser,    \* the top-level Parser object (sub-parsers nested in it)
    nodes,     \* the arena of AST nodes built so far
    ast,       \* what Parser.complete() returned (0: null)
    phase,     \* "parsing", "compiled", "failed" (parser threw), "evaluated";
               \* of an Expression made from a source: "created", "rejected"
               \* (its last compile() threw)
    ctx0,      \* the context as supplied to the last evaluation
    context,   \* the context object after the last evaluation
    outcome,   \* the last evaluation: [err, val, log]
    evals,     \* how many evaluations have run
    compiles,  \* how often Expression.compile ran: [explicit, lazy]
    ops,       \* the operator lexemes grammar.elements holds at present
    promise,   \* a PromiseSync object the host holds: its value and error
    lastCall,  \* the last call on it: [op, handler, resolved, rejected]
    calls      \* how many calls the host has made on it

\* The PromiseSync object and the history of the host's calls on it.
pvars == <<promise, lastCall, calls>>

vars == <<profile, tokens, parser, nodes, ast, phase, ctx0, context, outcome,
          evals, compiles, ops, promise, lastCall, calls>>

----------------------------------------------------------------------------
(* Values: a tagged union; payloads live in differently named fields so    *)
(* values of different types are simply unequal.                           *)

Undef == [t |-> "undefined"]
Null == [t |-> "null"]
NaN == [t |-> "NaN"]
Num(n) == [t |-> "number", n |-> n]
Bool(b) == [t |-> "boolean", b |-> b]
Arr(s) == [t |-> "array", a |-> s]
Str(s) == [t |-> "string", s |-> s]

\* The backtick, which a TLA+ string cannot hold: the apostrophe, which no
\* text of the model contains otherwise, stands for it.
Backtick == "'"
Obj(f) == [t |-> "object", o |-> f]

\* JavaScript truthiness, as used by `if (res)`, `!leftVal`, `!right`.
Truthy(v) ==
    CASE v.t = "undefined" -> FALSE
      [] v.t = "null" -> FALSE
      [] v.t = "NaN" -> FALSE
      [] v.t = "boolean" -> v.b
      [] v.t = "number" -> v.n # 0
      [] v.t = "string" -> v.s # ""
      [] OTHER -> TRUE

\* null or undefined: JavaScript's `v == null`.
IsNullish(v) == v.t \in {"undefined", "null"}

----------------------------------------------------------------------------
(* Tokens, as the lexer hands them to the parser.                          *)

Tok(type, value) == [type |-> type, value |-> value, lit |-> Undef]
LitTok(v) == [type |-> "literal", value |-> "", lit |-> v]

\* The text the lexer makes of a run of template characters: an escaped
\* backtick or dollar sign loses its backslash.
RECURSIVE unescape(_, _)
unescape(text, i) ==
    IF i > Len(text) THEN ""
    ELSE IF i < Len(text) /\ SubSeq(text, i, i) = "\\"
            /\ SubSeq(text, i + 1, i + 1) \in {Backtick, "$"}
    THEN SubSeq(text, i + 1, i + 1) \o unescape(text, i + 2)
    ELSE SubSeq(text, i, i) \o unescape(text, i + 1)

\* A templateString token: its value is the parts the lexer split the
\* template into, a static part with its text or an interpolation with the
\* source between `${` and `}` (here as the lexemes it reads as); `raw` is
\* the part as the expression spells it.
Static(raw) == [type |-> "static", text |-> unescape(raw, 1), src |-> <<>>, raw |-> raw]
Interpolation(src) == [type |-> "interpolation", text |-> "", src |-> src, raw |-> ""]
TemplateTok(parts) ==
    [type |-> "templateString", value |-> "", lit |-> [t |-> "template", parts |-> parts]]

----------------------------------------------------------------------------
(* The grammar table.                                                      *)

\* `precedence: Infinity` of the unary operator: above every binary one.
Infinity == 1000000

\* Binary operators two tests register with addBinaryOp: weights 0 and 1000.
customElements ==
    ("**" :> [type |-> "binaryOp", precedence |-> 0, onDemand |-> FALSE]) @@
    ("***" :> [type |-> "binaryOp", precedence |-> 1000, onDemand |-> FALSE])

\* The operator elements of getGrammar() that the model's tokens use.
elements ==
    ("+" :> [type |-> "binaryOp", precedence |-> 30, onDemand |-> FALSE]) @@
    ("-" :> [type |-> "binaryOp", precedence |-> 30, onDemand |-> FALSE]) @@
    ("*" :> [type |-> "binaryOp", precedence |-> 40, onDemand |-> FALSE]) @@
    ("&&" :> [type |-> "binaryOp", precedence |-> 10, onDemand |-> TRUE]) @@
    ("||" :> [type |-> "binaryOp", precedence |-> 10, onDemand |-> TRUE]) @@
    ("!" :> [type |-> "unaryOp", precedence |-> Infinity, onDemand |-> FALSE]) @@
    ("=" :> [type |-> "binaryOp", precedence |-> 2, onDemand |-> FALSE]) @@
    customElements

----------------------------------------------------------------------------
(* AST nodes.  One record shape for every node type; a field a node type   *)
(* does not have keeps its default (0, "", <<>>, FALSE), which reads as    *)
(* JavaScript's undefined.  `name` is an Identifier's `value` and a        *)
(* FunctionCall's `name`; `elems` is an ArrayLiteral's `value`; `parent`   *)
(* is `_parent`; a part of a TemplateLiteral is [type, text, node], its     *)
(* `value` being the text of a static part and the node of an expression.  *)

EmptyNode ==
    [type |-> "", value |-> Undef, name |-> "", operator |-> "",
     left |-> 0, right |-> 0, from |-> 0, relative |-> FALSE,
     expr |-> 0, subject |-> 0, test |-> 0, consequent |-> 0, alternate |-> 0,
     args |-> <<>>, pool |-> "", elems |-> <<>>, expressions |-> <<>>,
     parts |-> <<>>, parent |-> 0]

Node(type) == [EmptyNode EXCEPT !.type = type]

\* No sub-parser: `this._subParser` is null.
NoParser == [state |-> "none"]

\* A parser machine: the Parser object `p`, the arena, and the error thrown
\* ("" while nothing was thrown).  Every handler maps a machine to a machine.
Machine(p, ns) == [p |-> p, nodes |-> ns, err |-> ""]

Throw(m, msg) == [m EXCEPT !.err = IF m.err = "" THEN msg ELSE m.err]

\* A freshly allocated node: the machine with the node appended to the arena.
Alloc(m, node) == [m EXCEPT !.nodes = Append(m.nodes, node)]
Last(m) == Len(m.nodes)

----------------------------------------------------------------------------
(* The Parser object and its tree primitives.                              *)

NoStops == [x \in {} |-> ""]

NewParser(stopMap) ==
    [state |-> "expectOperand", tree |-> 0, cursor |-> 0, relative |-> FALSE,
     nextIdentEncapsulate |-> FALSE, nextIdentRelative |-> FALSE,
     parentStop |-> FALSE, stopMap |-> stopMap, subParser |-> NoParser,
     sequenceExpressions |-> <<>>]

\* Parser._setParent: defining `_parent` on a null node throws a TypeError.
setParent(m, node, parent) ==
    IF node = 0 THEN Throw(m, "TypeError")
    ELSE [m EXCEPT !.nodes[node].parent = parent]

\* Parser._placeAtCursor: the node becomes the tree when there is no cursor,
\* the cursor's `right` otherwise; the cursor moves to the node.
placeAtCursor(m, node) ==
    IF m.err # "" THEN m
    ELSE IF m.p.cursor = 0
    THEN [m EXCEPT !.p.tree = node, !.p.cursor = node]
    ELSE LET m1 == [m EXCEPT !.nodes[m.p.cursor].right = node]
             m2 == setParent(m1, node, m.p.cursor)
         IN  IF m2.err # "" THEN m2 ELSE [m2 EXCEPT !.p.cursor = node]

\* Parser._placeBeforeCursor: the node takes the cursor's place under the
\* cursor's parent.
placeBeforeCursor(m, node) ==
    IF m.err # "" THEN m
    ELSE IF m.p.cursor = 0 THEN Throw(m, "TypeError")
    ELSE placeAtCursor([m EXCEPT !.p.cursor = m.nodes[m.p.cursor].parent], node)

----------------------------------------------------------------------------
(* The parser's handlers, one per token type or sub-expression.            *)

argVal(m, ast0) ==
    IF ast0 # 0
    THEN [m EXCEPT !.nodes[m.p.cursor].args = Append(@, ast0)]
    ELSE m

arrayStart(m) ==
    LET m1 == Alloc(m, Node("ArrayLiteral")) IN placeAtCursor(m1, Last(m1))

arrayVal(m, ast0) ==
    IF ast0 # 0
    THEN [m EXCEPT !.nodes[m.p.cursor].elems = Append(@, ast0)]
    ELSE m

\* No walk at all: the operator takes the cursor as its left side.
climbNone(ns, cursor, parent, precedence) == <<cursor, parent>>

\* The walk with `>` for `>=`: an equally heavy parent is not climbed.
RECURSIVE climbStrict(_, _, _, _)
climbStrict(ns, cursor, parent, precedence) ==
    IF parent # 0 /\ ns[parent].operator # ""
       /\ elements[ns[parent].operator].precedence > precedence
    THEN climbStrict(ns, parent, ns[parent].parent, precedence)
    ELSE <<cursor, parent>>

\* The walk up from the cursor while the parent is an operator node that
\* binds at least as tightly: <<cursor, parent>> where the walk stops.
RECURSIVE climb(_, _, _, _)
climb(ns, cursor, parent, precedence) ==
    IF parent # 0 /\ ns[parent].operator # ""
       /\ elements[ns[parent].operator].precedence >= precedence
    THEN climb(ns, parent, ns[parent].parent, precedence)
    ELSE <<cursor, parent>>

binaryOp(m, token) ==
    IF token.value = "="
    THEN IF m.p.cursor = 0 \/ m.nodes[m.p.cursor].type # "Identifier"
         THEN Throw(m, "Left side of assignment must be a variable name")
         ELSE LET node == [Node("AssignmentExpression") EXCEPT
                              !.operator = "=", !.left = m.p.cursor]
                  m1 == Alloc(m, node)
                  m2 == [m1 EXCEPT !.p.cursor = m.nodes[m.p.cursor].parent]
              IN  placeAtCursor(m2, Last(m1))
    ELSE LET precedence == elements[token.value].precedence
             start == IF m.p.cursor = 0 THEN 0 ELSE m.nodes[m.p.cursor].parent
             top == climb(m.nodes, m.p.cursor, start, precedence)
             node == [Node("BinaryExpression") EXCEPT
                         !.operator = token.value, !.left = top[1]]
             m1 == Alloc(m, node)
             m2 == setParent(m1, top[1], Last(m1))
         IN  placeAtCursor([m2 EXCEPT !.p.cursor = top[2]], Last(m1))

dot(m) ==
    LET c == m.p.cursor
        encapsulate ==
            /\ c # 0
            /\ m.nodes[c].type # "UnaryExpression"
            /\ (m.nodes[c].type # "BinaryExpression" \/ m.nodes[c].right # 0)
        rel == c = 0 \/ ~encapsulate
    IN  [m EXCEPT !.p.nextIdentEncapsulate = encapsulate,
                  !.p.nextIdentRelative = rel,
                  !.p.relative = IF rel THEN TRUE ELSE @]

\* this._subParser.isRelative(): the sub-parser's own `_relative` flag.
isRelative(p) == p.relative

filter(m, ast0) ==
    LET node == [Node("FilterExpression") EXCEPT
                    !.expr = ast0, !.relative = isRelative(m.p.subParser),
                    !.subject = m.p.cursor]
        m1 == Alloc(m, node)
    IN  placeBeforeCursor(m1, Last(m1))

\* A functionCall that keeps the chain subject as the first argument.
functionCallOnSubject(m) ==
    LET from == m.nodes[m.p.cursor].from
        node == [Node("FunctionCall") EXCEPT
                    !.name = m.nodes[m.p.cursor].name, !.pool = "functions",
                    !.args = IF from = 0 THEN <<>> ELSE <<from>>]
        m1 == Alloc(m, node)
    IN  placeBeforeCursor(m1, Last(m1))

functionCall(m) ==
    LET node == [Node("FunctionCall") EXCEPT
                    !.name = m.nodes[m.p.cursor].name, !.pool = "functions"]
        m1 == Alloc(m, node)
    IN  placeBeforeCursor(m1, Last(m1))

identifier(m, token) ==
    LET node == [Node("Identifier") EXCEPT !.name = token.value] IN
    IF m.p.nextIdentEncapsulate
    THEN LET m1 == Alloc(m, [node EXCEPT !.from = m.p.cursor])
             m2 == placeBeforeCursor(m1, Last(m1))
         IN  [m2 EXCEPT !.p.nextIdentEncapsulate = FALSE]
    ELSE LET rel == m.p.nextIdentRelative
             m1 == Alloc(m, [node EXCEPT !.relative = rel])
             m2 == [m1 EXCEPT !.p.nextIdentRelative = FALSE]
         IN  placeAtCursor(m2, Last(m1))

literal(m, token) ==
    LET m1 == Alloc(m, [Node("Literal") EXCEPT !.value = token.lit])
    IN  placeAtCursor(m1, Last(m1))

subExpression(m, ast0) == placeAtCursor(m, ast0)

ternaryEnd(m, ast0) == [m EXCEPT !.nodes[m.p.cursor].alternate = ast0]

ternaryMid(m, ast0) == [m EXCEPT !.nodes[m.p.cursor].consequent = ast0]

ternaryStart(m) ==
    LET m1 == Alloc(m, [Node("ConditionalExpression") EXCEPT !.test = m.p.tree])
    IN  [m1 EXCEPT !.p.tree = Last(m1), !.p.cursor = Last(m1)]

transform(m, token) ==
    LET node == [Node("FunctionCall") EXCEPT
                    !.name = token.value, !.args = <<m.p.cursor>>,
                    !.pool = "transforms"]
        m1 == Alloc(m, node)
    IN  placeBeforeCursor(m1, Last(m1))

unaryOp(m, token) ==
    LET m1 == Alloc(m, [Node("UnaryExpression") EXCEPT !.operator = token.value])
    IN  placeAtCursor(m1, Last(m1))

\* A semicolon that puts the finished tree before the ones collected so far.
semicolonInFront(m) ==
    [m EXCEPT !.p.sequenceExpressions = <<m.p.tree>> \o @,
              !.p.tree = 0, !.p.cursor = 0, !.p.state = "expectOperand"]

semicolon(m) ==
    [m EXCEPT !.p.sequenceExpressions = Append(@, m.p.tree),
              !.p.tree = 0, !.p.cursor = 0, !.p.state = "expectOperand"]

----------------------------------------------------------------------------
(* The parser's state table: per state, the token types it accepts (with   *)
(* the state to move to and a handler overriding the token type's own),    *)
(* or the handler of the sub-expression it collects and the tokens that    *)
(* end it.                                                                 *)

T(toState, handler) == [toState |-> toState, handler |-> handler]

Plain(tokenTypes, completable) ==
    [tokenTypes |-> tokenTypes, completable |-> completable,
     subHandler |-> "", endStates |-> NoStops]

Sub(subHandler, endStates, completable) ==
    [tokenTypes |-> NoStops, completable |-> completable,
     subHandler |-> subHandler, endStates |-> endStates]

\* What may follow a complete operand in every state that holds one.
afterOperand ==
    ("binaryOp" :> T("expectOperand", "")) @@
    ("dot" :> T("traverse", "")) @@
    ("question" :> T("ternaryMid", "ternaryStart")) @@
    ("semicolon" :> T("expectOperand", ""))

states ==
    [expectOperand |-> Plain(
        ("literal" :> T("expectBinOp", "")) @@
        ("templateString" :> T("expectBinOp", "")) @@
        ("identifier" :> T("identifier", "")) @@
        ("unaryOp" :> T("", "")) @@
        ("openParen" :> T("subExpression", "")) @@
        ("dot" :> T("traverse", "")) @@
        ("openBracket" :> T("arrayVal", "arrayStart")), FALSE),
     expectBinOp |-> Plain(
        afterOperand @@ ("pipe" :> T("expectTransform", "")), TRUE),
     expectTransform |-> Plain(
        ("identifier" :> T("postTransform", "transform")), FALSE),
     postTransform |-> Plain(
        afterOperand @@
        ("openParen" :> T("argVal", "")) @@
        ("openBracket" :> T("filter", "")) @@
        ("pipe" :> T("expectTransform", "")), TRUE),
     postArgs |-> Plain(
        afterOperand @@
        ("openBracket" :> T("filter", "")) @@
        ("pipe" :> T("expectTransform", "")), TRUE),
     identifier |-> Plain(
        afterOperand @@
        ("openBracket" :> T("filter", "")) @@
        ("openParen" :> T("argVal", "functionCall")) @@
        ("pipe" :> T("expectTransform", "")), TRUE),
     traverse |-> Plain(("identifier" :> T("identifier", "")), FALSE),
     filter |-> Sub("filter", ("closeBracket" :> "identifier"), FALSE),
     subExpression |-> Sub("subExpression", ("closeParen" :> "expectBinOp"), FALSE),
     argVal |-> Sub("argVal",
        ("comma" :> "argVal") @@ ("closeParen" :> "postArgs"), FALSE),
     arrayVal |-> Sub("arrayVal",
        ("comma" :> "arrayVal") @@ ("closeBracket" :> "expectBinOp"), FALSE),
     ternaryMid |-> Sub("ternaryMid", ("colon" :> "ternaryEnd"), FALSE),
     ternaryEnd |-> Sub("ternaryEnd", NoStops, TRUE),
     complete |-> Plain(NoStops, FALSE)]

RECURSIVE templateString(_, _)

\* handlers[token.type], or the handler the state names: "" runs nothing.
runHandler(name, m, token) ==
    CASE name = "binaryOp" -> binaryOp(m, token)
      [] name = "dot" -> dot(m)
      [] name = "identifier" -> identifier(m, token)
      [] name = "literal" -> literal(m, token)
      [] name = "unaryOp" -> unaryOp(m, token)
      [] name = "semicolon" -> semicolon(m)
      [] name = "arrayStart" -> arrayStart(m)
      [] name = "functionCall" -> functionCall(m)
      [] name = "ternaryStart" -> ternaryStart(m)
      [] name = "transform" -> transform(m, token)
      [] name = "templateString" -> templateString(m, token)
      [] OTHER -> m

\* The handler of a finished sub-expression, given the sub-parser's tree.
runSubHandler(name, m, ast0) ==
    CASE name = "filter" -> filter(m, ast0)
      [] name = "subExpression" -> subExpression(m, ast0)
      [] name = "argVal" -> argVal(m, ast0)
      [] name = "arrayVal" -> arrayVal(m, ast0)
      [] name = "ternaryMid" -> ternaryMid(m, ast0)
      [] name = "ternaryEnd" -> ternaryEnd(m, ast0)

\* The token types with a handler of their own name.
typeHandlers ==
    {"binaryOp", "dot", "identifier", "literal", "unaryOp", "semicolon",
     "templateString"}

handlerFor(typeOpts, token) ==
    IF typeOpts.handler # "" THEN typeOpts.handler
    ELSE IF token.type \in typeHandlers THEN token.type
    ELSE ""

\* Parser._startSubExpression: a sub-parser that stops at the state's end
\* tokens, or at this parser's own when the state names none.
startSubExpression(p) ==
    LET endStates == states[p.state].endStates IN
    IF DOMAIN endStates = {}
    THEN [p EXCEPT !.parentStop = TRUE, !.subParser = NewParser(p.stopMap)]
    ELSE [p EXCEPT !.subParser = NewParser(endStates)]

\* The result of Parser.complete(): the tree, or the collected trees and the
\* tree wrapped in a SequenceExpression when `;` separated several.
finalTree(m) ==
    LET last == IF m.p.cursor # 0 THEN m.p.tree ELSE 0
        all == IF last # 0 THEN Append(m.p.sequenceExpressions, last)
               ELSE m.p.sequenceExpressions
    IN  IF Len(m.p.sequenceExpressions) = 0 THEN [m |-> m, ast |-> last]
        ELSE IF Len(all) = 1 THEN [m |-> m, ast |-> all[1]]
        ELSE LET m1 == Alloc(m, [Node("SequenceExpression") EXCEPT
                                    !.expressions = all])
             IN  [m |-> m1, ast |-> Last(m1)]

RECURSIVE complete(_)
RECURSIVE endSubExpression(_)

\* Parser._endSubExpression: complete the sub-parser, hand its tree to the
\* state's sub-handler, drop the sub-parser.
endSubExpression(m) ==
    LET c == complete(Machine(m.p.subParser, m.nodes))
        m1 == [m EXCEPT !.nodes = c.m.nodes, !.p.subParser = c.m.p]
        m2 == runSubHandler(states[m.p.state].subHandler, m1, c.ast)
    IN  IF c.m.err # "" THEN Throw(m1, c.m.err)
        ELSE IF m2.err # "" THEN m2
        ELSE [m2 EXCEPT !.p.subParser = NoParser]

\* Parser.complete(): [m |-> the machine afterwards, ast |-> the tree].
complete(m) ==
    IF m.p.cursor # 0 /\ ~states[m.p.state].completable
    THEN [m |-> Throw(m, "Unexpected end of expression"), ast |-> 0]
    ELSE LET m1 == IF m.p.subParser # NoParser THEN endSubExpression(m) ELSE m
         IN  IF m1.err # "" THEN [m |-> m1, ast |-> 0]
             ELSE finalTree([m1 EXCEPT !.p.state = "complete"])

\* Parser.addToken: [m |-> the machine afterwards, stop |-> the state the
\* parent is to move to when the token ended this (sub-)parser, else ""].
RECURSIVE addToken(_, _)
addToken(m, token) ==
    LET state == states[m.p.state] IN
    IF m.p.state = "complete"
    THEN [m |-> Throw(m, "Cannot add a new token to a completed Parser"), stop |-> ""]
    ELSE IF state.subHandler # ""
    THEN LET p1 == IF m.p.subParser = NoParser THEN startSubExpression(m.p) ELSE m.p
             r == addToken(Machine(p1.subParser, m.nodes), token)
             m1 == [p |-> [p1 EXCEPT !.subParser = r.m.p], nodes |-> r.m.nodes,
                    err |-> r.m.err]
         IN  IF m1.err # "" \/ r.stop = "" THEN [m |-> m1, stop |-> ""]
             ELSE LET m2 == endSubExpression(m1) IN
                  IF m2.err # "" THEN [m |-> m2, stop |-> ""]
                  ELSE IF m2.p.parentStop THEN [m |-> m2, stop |-> r.stop]
                  ELSE [m |-> [m2 EXCEPT !.p.state = r.stop], stop |-> ""]
    ELSE IF token.type \in DOMAIN state.tokenTypes
    THEN LET typeOpts == state.tokenTypes[token.type]
             m1 == runHandler(handlerFor(typeOpts, token), m, token)
         IN  IF m1.err # "" \/ typeOpts.toState = "" THEN [m |-> m1, stop |-> ""]
             ELSE [m |-> [m1 EXCEPT !.p.state = typeOpts.toState], stop |-> ""]
    ELSE IF token.type \in DOMAIN m.p.stopMap
    THEN [m |-> m, stop |-> m.p.stopMap[token.type]]
    ELSE [m |-> Throw(m, "Token unexpected in expression"), stop |-> ""]

\* Parser.addTokens: addToken for each token in turn, until one throws.
RECURSIVE addTokens(_, _, _)
addTokens(m, toks, i) ==
    IF i > Len(toks) \/ m.err # "" THEN m
    ELSE addTokens(addToken(m, toks[i]).m, toks, i + 1)

\* parser.complete() after parser.addTokens(tokens) left the machine m.
completeTokens(m) == IF m.err # "" THEN [m |-> m, ast |-> 0] ELSE complete(m)

\* The parts of a TemplateLiteral from the token's i-th part on: a static
\* part passes through unchanged, an interpolation is parsed by a parser of
\* its own, c being what that parser ended with.
RECURSIVE templateParts(_, _, _, _)
interpolationPart(m, c, parts, i, acc) ==
    IF c.m.err # "" THEN [m |-> Throw(m, c.m.err), parts |-> acc]
    ELSE templateParts([m EXCEPT !.nodes = c.m.nodes], parts, i + 1,
                       Append(acc, [type |-> "expression", text |-> "",
                                    node |-> c.ast]))

templateParts(m, parts, i, acc) ==
    IF i > Len(parts) THEN [m |-> m, parts |-> acc]
    ELSE IF parts[i].type = "static"
    THEN templateParts(m, parts, i + 1,
                       Append(acc, [type |-> "static", text |-> parts[i].text,
                                    node |-> 0]))
    ELSE interpolationPart(
            m, completeTokens(addTokens(Machine(NewParser(NoStops), m.nodes),
                                        parts[i].src, 1)),
            parts, i, acc)

\* The TemplateLiteral node over the parts r, placed at the cursor.
placeTemplate(r) ==
    IF r.m.err # "" THEN r.m
    ELSE placeAtCursor(Alloc(r.m, [Node("TemplateLiteral") EXCEPT !.parts = r.parts]),
                       Len(r.m.nodes) + 1)

templateString(m, token) == placeTemplate(templateParts(m, token.lit.parts, 1, <<>>))

----------------------------------------------------------------------------
(* The grammar's operator functions and the registered functions.          *)

\* JavaScript's String(v).
RECURSIVE String(_)
RECURSIVE join(_, _)
join(a, i) ==
    IF i > Len(a) THEN ""
    ELSE (IF IsNullish(a[i]) THEN "" ELSE String(a[i]))
            \o (IF i < Len(a) THEN "," ELSE "") \o join(a, i + 1)

String(v) ==
    CASE v.t = "string" -> v.s
      [] v.t = "number" -> ToString(v.n)
      [] v.t = "boolean" -> IF v.b THEN "true" ELSE "false"
      [] v.t = "NaN" -> "NaN"
      [] v.t = "undefined" -> "undefined"
      [] v.t = "null" -> "null"
      [] v.t = "array" -> join(v.a, 1)
      [] v.t = "error" -> "Error: " \o v.message
      [] OTHER -> "[object Object]"

\* JavaScript's ToNumber on the model's values: a number, or NaN.
RECURSIVE ToNumber(_)
ToNumber(v) ==
    CASE v.t = "number" -> v
      [] v.t = "boolean" -> Num(IF v.b THEN 1 ELSE 0)
      [] v.t = "null" -> Num(0)
      [] v.t = "array" ->
            IF Len(v.a) = 0 THEN Num(0)
            ELSE IF Len(v.a) > 1 THEN NaN
            ELSE IF IsNullish(v.a[1]) THEN Num(0)
            ELSE IF v.a[1].t \in {"number", "array"} THEN ToNumber(v.a[1])
            ELSE NaN
      [] OTHER -> NaN

\* elements[op].eval for the binary operators with pre-evaluated operands.
binaryEval(op, left, right) ==
    LET l == ToNumber(left)
        r == ToNumber(right)
    IN  IF op = "+" /\ (left.t = "string" \/ right.t = "string")
        THEN Str(String(left) \o String(right))
        ELSE IF l = NaN \/ r = NaN THEN NaN
        ELSE CASE op = "+" -> Num(l.n + r.n)
               [] op = "-" -> Num(l.n - r.n)
               [] op = "*" -> Num(l.n * r.n)
               [] OTHER -> Num(l.n * 2 + r.n * 2)

\* elements['!'].eval
unaryEval(op, right) == Bool(~Truthy(right))

\* An Error object, by its message.
Error(message) == [t |-> "error", message |-> message]

\* A host callable, by what it does with its evaluated arguments: return a
\* value whatever they are, return the first of them plus a number, or
\* throw a value.
Returning(v) == [kind |-> "return", v |-> v]
Adding(k) == [kind |-> "add", v |-> Num(k)]
Throwing(v) == [kind |-> "throw", v |-> v]

\* grammar.functions as the host registered it: name -> callable.
functions ==
    ("foo" :> Returning(Bool(TRUE))) @@ ("bar" :> Returning(Bool(FALSE))) @@
    ("add1" :> Adding(1)) @@
    ("abort" :> Throwing(Error("oops"))) @@ ("zero" :> Throwing(Num(0)))

\* grammar.transforms as the host registered it.
transforms ==
    ("add1" :> Adding(1)) @@ ("add2" :> Adding(2)) @@
    ("abort" :> Throwing(Error("oops")))

\* this._grammar[pool] for a pool name of the AST.
grammarPool(pool) ==
    CASE pool = "functions" -> functions
      [] pool = "transforms" -> transforms
      [] OTHER -> [x \in {} |-> Undef]

\* The pools FunctionCall knows, by the AST's pool name.
poolNames == ("functions" :> "Jexl Function")

\* ctx?.[name] for an identifier's name.
GetProp(v, name) ==
    CASE v.t = "object" -> IF name \in DOMAIN v.o THEN v.o[name] ELSE Undef
      [] v.t = "array" -> IF name = "length" THEN Num(Len(v.a)) ELSE Undef
      [] v.t = "string" -> IF name = "length" THEN Num(Len(v.s)) ELSE Undef
      [] OTHER -> Undef

\* subject?.[index] for an evaluated index: an element of an array when the
\* index converts to the key of one; the model's objects have no such keys.
GetIndex(subject, index) ==
    LET k == IF index.t = "array" THEN ToNumber(index) ELSE index IN
    IF subject.t = "array" /\ k.t = "number" /\ k.n >= 0 /\ k.n < Len(subject.a)
       /\ (index.t = "number" \/ (index.t = "array" /\ Len(index.a) = 1
                                   /\ index.a[1].t = "number"))
    THEN subject.a[k.n + 1]
    ELSE Undef

----------------------------------------------------------------------------
(* The evaluator.  An evaluation state is the Evaluator object (`ctx` is   *)
(* _context, `rel` is _relContext), the error thrown so far ("" for none),  *)
(* the value last returned, and `log`: in order, every entry of           *)
(* Evaluator.eval into a node and every return from it with its value (a   *)
(* throw returns nothing).                                                 *)

Enter(n) == [n |-> n, ev |-> "enter", val |-> Undef]
Return(n, v) == [n |-> n, ev |-> "return", val |-> v]
\* FunctionCall n invoking its callable with the values args, and the
\* callable throwing v.
Call(n, args) == [n |-> n, ev |-> "call", val |-> Arr(args)]
Thrown(n, v) == [n |-> n, ev |-> "throw", val |-> v]

NoRel == [t |-> "absent"]

NewEvaluator(ctx) ==
    [ctx |-> ctx, rel |-> NoRel, err |-> "", thrown |-> Undef, val |-> Undef,
     log |-> <<>>]

Ret(st, v) == [st EXCEPT !.val = v]
\* throw new Error(e): `err` is the message, `thrown` the value in flight.
Fail(st, e) == [st EXCEPT !.err = e, !.thrown = Error(e), !.val = Undef]
\* throw v for any value v; one that is no Error has no message.
Raise(st, v) ==
    IF v.t = "error" THEN Fail(st, v.message)
    ELSE [st EXCEPT !.err = "uncaught", !.thrown = v, !.val = Undef]

RECURSIVE Eval(_, _, _)
RECURSIVE evalArrayFrom(_, _, _, _, _)

\* Evaluator.evalArray: the elements in order; `val` is the array of results.
evalArrayFrom(ns, arr, i, acc, st) ==
    IF i > Len(arr) THEN Ret(st, Arr(acc))
    ELSE LET s1 == Eval(ns, arr[i], st) IN
         IF s1.err # "" THEN s1
         ELSE evalArrayFrom(ns, arr, i + 1, Append(acc, s1.val), s1)

evalArray(ns, arr, st) == evalArrayFrom(ns, arr, 1, <<>>, st)

ArrayLiteral(ns, n, st) == evalArray(ns, ns[n].elems, st)

\* `&&` and `||` with both operands evaluated before the choice.
evalEager(ns, op, left, right, st) ==
    LET s1 == Eval(ns, left, st) IN
    IF s1.err # "" THEN s1
    ELSE LET s2 == Eval(ns, right, s1) IN
         IF s2.err # "" THEN s2
         ELSE IF (op = "&&") # Truthy(s1.val) THEN Ret(s2, s1.val) ELSE s2

\* elements[op].evalOnDemand of `&&` and `||`.
evalOnDemand(ns, op, left, right, st) ==
    LET s1 == Eval(ns, left, st) IN
    IF s1.err # "" THEN s1
    ELSE IF op = "&&"
    THEN IF ~Truthy(s1.val) THEN s1 ELSE Eval(ns, right, s1)
    ELSE IF Truthy(s1.val) THEN s1 ELSE Eval(ns, right, s1)

\* A strict binary operator whose right operand is evaluated first.
BinaryExpressionRightFirst(ns, n, st) ==
    IF elements[ns[n].operator].onDemand
    THEN evalOnDemand(ns, ns[n].operator, ns[n].left, ns[n].right, st)
    ELSE LET s1 == Eval(ns, ns[n].right, st) IN
         IF s1.err # "" THEN s1
         ELSE LET s2 == Eval(ns, ns[n].left, s1) IN
              IF s2.err # "" THEN s2
              ELSE Ret(s2, binaryEval(ns[n].operator, s2.val, s1.val))

\* grammarOp is undefined for an operator the grammar no longer holds, and
\* reading grammarOp.evalOnDemand raises.
BinaryExpression(ns, n, st) ==
    IF ns[n].operator \notin ops THEN Fail(st, "TypeError")
    ELSE IF elements[ns[n].operator].onDemand
    THEN evalOnDemand(ns, ns[n].operator, ns[n].left, ns[n].right, st)
    ELSE LET s1 == Eval(ns, ns[n].left, st) IN
         IF s1.err # "" THEN s1
         ELSE LET s2 == Eval(ns, ns[n].right, s1) IN
              IF s2.err # "" THEN s2
              ELSE Ret(s2, binaryEval(ns[n].operator, s1.val, s2.val))

\* A ternary that evaluates both branches before it chooses between them.
ConditionalExpressionBoth(ns, n, st) ==
    LET s1 == Eval(ns, ns[n].test, st) IN
    IF s1.err # "" THEN s1
    ELSE LET s2 == IF ns[n].consequent # 0 THEN Eval(ns, ns[n].consequent, s1)
                   ELSE s1
         IN  IF s2.err # "" THEN s2
             ELSE LET s3 == Eval(ns, ns[n].alternate, s2) IN
                  IF s3.err # "" THEN s3
                  ELSE IF Truthy(s1.val) THEN Ret(s3, s2.val) ELSE s3

ConditionalExpression(ns, n, st) ==
    LET s1 == Eval(ns, ns[n].test, st) IN
    IF s1.err # "" THEN s1
    ELSE IF Truthy(s1.val)
    THEN IF ns[n].consequent # 0 THEN Eval(ns, ns[n].consequent, s1) ELSE s1
    ELSE Eval(ns, ns[n].alternate, s1)

FilterExpression(ns, n, st) ==
    LET s1 == Eval(ns, ns[n].subject, st) IN
    IF s1.err # "" THEN s1
    ELSE IF ns[n].relative
    THEN Fail(s1, "Relative filter expressions are not supported")
    ELSE LET s2 == Eval(ns, ns[n].expr, s1) IN
         IF s2.err # "" THEN s2
         ELSE IF IsNullish(s1.val) THEN Ret(s2, Undef)
         ELSE Ret(s2, GetIndex(s1.val, s2.val))

\* Member access that reads the property from an array itself.
IdentifierNoProjection(ns, n, st) ==
    IF ns[n].from = 0
    THEN Ret(st, IF ns[n].name \in DOMAIN st.ctx THEN st.ctx[ns[n].name] ELSE Undef)
    ELSE LET s1 == Eval(ns, ns[n].from, st) IN
         IF s1.err # "" THEN s1 ELSE Ret(s1, GetProp(s1.val, ns[n].name))

\* Member access with neither the `context == null` test nor the `?.`: a
\* read of a property of null or undefined raises.
IdentifierUnguarded(ns, n, st) ==
    IF ns[n].from = 0
    THEN Ret(st, IF ns[n].name \in DOMAIN st.ctx THEN st.ctx[ns[n].name] ELSE Undef)
    ELSE LET s1 == Eval(ns, ns[n].from, st) IN
         IF s1.err # "" THEN s1
         ELSE LET ctx == IF s1.val.t = "array"
                         THEN IF Len(s1.val.a) > 0 THEN s1.val.a[1] ELSE Undef
                         ELSE s1.val
              IN  IF IsNullish(ctx) THEN Fail(s1, "TypeError")
                  ELSE Ret(s1, GetProp(ctx, ns[n].name))

Identifier(ns, n, st) ==
    IF ns[n].from = 0
    THEN IF ns[n].relative
         THEN IF st.rel = NoRel THEN Fail(st, "TypeError")
              ELSE Ret(st, GetProp(st.rel, ns[n].name))
         ELSE Ret(st, IF ns[n].name \in DOMAIN st.ctx THEN st.ctx[ns[n].name]
                      ELSE Undef)
    ELSE LET s1 == Eval(ns, ns[n].from, st) IN
         IF s1.err # "" THEN s1
         ELSE IF IsNullish(s1.val) THEN Ret(s1, Undef)
         ELSE LET ctx == IF s1.val.t = "array"
                         THEN IF Len(s1.val.a) > 0 THEN s1.val.a[1] ELSE Undef
                         ELSE s1.val
              IN  IF IsNullish(ctx) THEN Ret(s1, Undef)
                  ELSE Ret(s1, GetProp(ctx, ns[n].name))

Literal(ns, n, st) == Ret(st, ns[n].value)

\* The loop of TemplateLiteral from the i-th part on, acc being the values
\* of the parts before it joined; s1 is what evaluating an expression part
\* ended in.
RECURSIVE templateFrom(_, _, _, _, _)
expressionPart(ns, parts, i, acc, s1) ==
    IF s1.err # "" THEN s1
    ELSE templateFrom(ns, parts, i + 1,
                      acc \o (IF IsNullish(s1.val) THEN "" ELSE String(s1.val)), s1)

templateFrom(ns, parts, i, acc, st) ==
    IF i > Len(parts) THEN Ret(st, Str(acc))
    ELSE IF parts[i].type = "static"
    THEN templateFrom(ns, parts, i + 1, acc \o parts[i].text, st)
    ELSE expressionPart(ns, parts, i, acc, Eval(ns, parts[i].node, st))

\* The text with a backslash put before every backtick and dollar sign.
RECURSIVE escape(_, _)
escape(text, i) ==
    IF i > Len(text) THEN ""
    ELSE (IF SubSeq(text, i, i) \in {Backtick, "$"} THEN "\\" ELSE "")
            \o SubSeq(text, i, i) \o escape(text, i + 1)

\* A TemplateLiteral that gives its static parts their escapes back.
TemplateLiteralEscaping(ns, n, st) ==
    templateFrom(ns, [i \in DOMAIN ns[n].parts |->
                        [ns[n].parts[i] EXCEPT !.text = escape(@, 1)]], 1, "", st)

TemplateLiteral(ns, n, st) == templateFrom(ns, ns[n].parts, 1, "", st)

\* func(...args) for a registered callable, logged as FunctionCall n's call.
apply(func, n, args, st) ==
    LET s1 == [st EXCEPT !.log = Append(@, Call(n, args))] IN
    CASE func.kind = "return" -> Ret(s1, func.v)
      [] func.kind = "add" ->
            Ret(s1, binaryEval("+", IF args = <<>> THEN Undef ELSE args[1], func.v))
      [] func.kind = "throw" ->
            Raise([s1 EXCEPT !.log = Append(@, Thrown(n, func.v))], func.v)

\* A FunctionCall that evaluates its arguments before it looks the
\* callable up.
FunctionCallArgsFirst(ns, n, st) ==
    LET s1 == evalArray(ns, ns[n].args, st) IN
    IF s1.err # "" THEN s1
    ELSE IF ns[n].pool \notin DOMAIN poolNames
    THEN Fail(s1, "Corrupt AST: Pool '" \o ns[n].pool \o "' not found")
    ELSE IF ns[n].name \notin DOMAIN grammarPool(ns[n].pool)
    THEN Fail(s1, poolNames[ns[n].pool] \o " " \o ns[n].name
                  \o " is not defined.")
    ELSE apply(grammarPool(ns[n].pool)[ns[n].name], n, s1.val.a, s1)

FunctionCall(ns, n, st) ==
    IF ns[n].pool \notin DOMAIN poolNames
    THEN Fail(st, "Corrupt AST: Pool '" \o ns[n].pool \o "' not found")
    ELSE LET pool == grammarPool(ns[n].pool) IN
         IF ns[n].name \notin DOMAIN pool
         THEN Fail(st, poolNames[ns[n].pool] \o " " \o ns[n].name
                       \o " is not defined.")
         ELSE LET s1 == evalArray(ns, ns[n].args, st) IN
              IF s1.err # "" THEN s1
              ELSE apply(pool[ns[n].name], n, s1.val.a, s1)

UnaryExpression(ns, n, st) ==
    LET s1 == Eval(ns, ns[n].right, st) IN
    IF s1.err # "" THEN s1
    ELSE IF ns[n].operator \notin ops THEN Fail(s1, "TypeError")
    ELSE Ret(s1, unaryEval(ns[n].operator, s1.val))

\* The loop of SequenceExpression from the i-th expression on.
RECURSIVE sequenceFrom(_, _, _, _)
sequenceFrom(ns, exprs, i, st) ==
    IF i > Len(exprs) THEN st
    ELSE LET s1 == Eval(ns, exprs[i], st) IN
         IF s1.err # "" THEN s1 ELSE sequenceFrom(ns, exprs, i + 1, s1)

SequenceExpression(ns, n, st) == sequenceFrom(ns, ns[n].expressions, 1, Ret(st, Undef))

\* An assignment that makes the context anew with the one binding in it.
AssignmentExpressionAlone(ns, n, st) ==
    LET s1 == Eval(ns, ns[n].right, st) IN
    IF s1.err # "" THEN s1
    ELSE [s1 EXCEPT !.ctx = ns[ns[n].left].name :> s1.val]

AssignmentExpression(ns, n, st) ==
    LET s1 == Eval(ns, ns[n].right, st) IN
    IF s1.err # "" THEN s1
    ELSE LET varName == ns[ns[n].left].name IN
         [s1 EXCEPT !.ctx = (varName :> s1.val) @@ @]

\* The handler Evaluator.eval picks for the node's type.
handle(ns, n, s0) ==
    LET type == ns[n].type IN
    CASE type = "ArrayLiteral" -> ArrayLiteral(ns, n, s0)
      [] type = "BinaryExpression" -> BinaryExpression(ns, n, s0)
      [] type = "ConditionalExpression" -> ConditionalExpression(ns, n, s0)
      [] type = "FilterExpression" -> FilterExpression(ns, n, s0)
      [] type = "Identifier" -> Identifier(ns, n, s0)
      [] type = "Literal" -> Literal(ns, n, s0)
      [] type = "TemplateLiteral" -> TemplateLiteral(ns, n, s0)
      [] type = "FunctionCall" -> FunctionCall(ns, n, s0)
      [] type = "UnaryExpression" -> UnaryExpression(ns, n, s0)
      [] type = "SequenceExpression" -> SequenceExpression(ns, n, s0)
      [] type = "AssignmentExpression" -> AssignmentExpression(ns, n, s0)

\* Evaluator.eval: dispatch on the node's type; a null node has no type.
Eval(ns, n, st) ==
    LET s0 == [st EXCEPT !.log = Append(@, Enter(n))] IN
    IF n = 0 THEN Fail(s0, "TypeError")
    ELSE LET r == handle(ns, n, s0) IN
         IF r.err # "" THEN r
         ELSE [r EXCEPT !.log = Append(@, Return(n, r.val))]

----------------------------------------------------------------------------
(* Compiling and evaluating a whole token sequence in one go.              *)

\* Lexer.tokenize of the source that reads as the lexemes toks: "" when
\* every operator among them is an element of the grammar, else the error
\* for the first one that is not.
tokenize(toks) ==
    LET bad == {i \in DOMAIN toks :
                   toks[i].type \in {"binaryOp", "unaryOp"} /\ toks[i].value \notin ops}
    IN  IF bad = {} THEN ""
        ELSE "Invalid expression token: "
                \o toks[CHOOSE i \in bad : \A j \in bad : i <= j].value

\* The parser's part of Expression.compile, after the lexer threw e or,
\* with e = "", returned toks.
parseTokens(e, toks) ==
    IF e # "" THEN [m |-> Throw(Machine(NewParser(NoStops), <<>>), e), ast |-> 0]
    ELSE completeTokens(addTokens(Machine(NewParser(NoStops), <<>>), toks, 1))

\* Expression.compile of that source: [m |-> parser machine, ast].
compile(toks) == parseTokens(tokenize(toks), toks)

\* Jexl.evalSync: compile, then evaluate against the context; a compile
\* error is the evaluation's error.
evalSync(toks, ctx) ==
    LET c == compile(toks) IN
    IF c.m.err # "" THEN Fail(NewEvaluator(ctx), c.m.err)
    ELSE Eval(c.m.nodes, c.ast, NewEvaluator(ctx))

----------------------------------------------------------------------------
(* PromiseSync, the synchronous stand-in for Promise that evalSync runs    *)
(* the evaluation in: an object with a `value` and an `error` field.       *)

PromiseSync(value, error) == [t |-> "PromiseSync", value |-> value, error |-> error]

\* PromiseSync._reject: the fields of the promise after it.
_reject(error) == PromiseSync(Undef, error)

\* PromiseSync._resolve: a PromiseSync is unwrapped, any other value kept.
RECURSIVE _resolve(_)
_resolve(val) ==
    IF val.t = "PromiseSync"
    THEN IF Truthy(val.error) THEN _reject(val.error) ELSE _resolve(val.value)
    ELSE PromiseSync(val, Undef)

\* PromiseSync.resolve(val): new PromiseSync((resolve) => resolve(val)).
resolve(val) == _resolve(val)

\* PromiseSync.then(resolved) on promise p, for a callback that ended in the
\* evaluation state st: it returned st.val, or threw st.thrown.
then(p, st) ==
    IF ~Truthy(p.error)
    THEN IF st.err # "" THEN _reject(st.thrown) ELSE _resolve(st.val)
    ELSE p

\* PromiseSync.catch(rejected) on promise p, for a callback that ended in
\* st.
catch(p, st) ==
    IF Truthy(p.error)
    THEN IF st.err # "" THEN _reject(st.thrown) ELSE _resolve(st.val)
    ELSE p

\* `if (!this.error)`: whether then invokes its `resolved` callback.
thenCalls(p) == ~Truthy(p.error)

\* `if (this.error)`: whether catch invokes its `rejected` callback.
catchCalls(p) == Truthy(p.error)

\* The fields of a PromiseSync before its executor has run.
Unsettled == PromiseSync(Undef, Undef)

\* One call an executor makes: resolve(val) or reject(val).
settle(p, c) == IF c.call = "resolve" THEN _resolve(c.val) ELSE _reject(c.val)

\* new PromiseSync(fn): fn runs with the bound _resolve and _reject; fn is
\* the sequence of calls it makes on them.
RECURSIVE construct(_, _)
construct(p, fn) ==
    IF fn = <<>> THEN p ELSE construct(settle(p, Head(fn)), Tail(fn))

\* PromiseSync.reject(error): new PromiseSync((_, reject) => reject(error)).
reject(error) == construct(Unsettled, <<[call |-> "reject", val |-> error]>>)

\* What _getAst hands on after compile() ran with outcome c: `err` is what
\* it threw, `ast`, `nodes` and `p` the Expression's AST and parser after it.
afterCompile(c) ==
    [err |-> c.m.err, ast |-> c.ast, compiled |-> TRUE,
     p |-> IF c.m.err = "" THEN c.m.p ELSE parser,
     nodes |-> IF c.m.err = "" THEN c.m.nodes ELSE nodes]

\* An eval that compiles whether or not an AST is cached.
_getAstAnew == afterCompile(compile(tokens))

\* Expression._getAst: compile when no AST is cached.
_getAst ==
    IF ast = 0 THEN afterCompile(compile(tokens))
    ELSE [err |-> "", ast |-> ast, compiled |-> FALSE, p |-> parser,
          nodes |-> nodes]

\* The body of eval after _getAst returned g: what compile threw, or else
\* new Evaluator(grammar, context).eval(ast).
evaluator(g, ctx) ==
    IF g.err # "" THEN Fail(NewEvaluator(ctx), g.err)
    ELSE Eval(g.nodes, g.ast, NewEvaluator(ctx))

\* Expression._eval(context, PromiseSync): the promise returned, and the
\* state the callback ended in.
promised(st) == [res |-> then(resolve(Undef), st), st |-> st]

_eval(g, ctx) == promised(evaluator(g, ctx))

----------------------------------------------------------------------------
(* The program as a state machine: tokens are handed to the parser one by  *)
(* one (Parser.addToken), the parser is completed (Expression.compile),    *)
(* and the compiled expression is evaluated against a context              *)
(* (Expression.eval), possibly more than once.                             *)

MaxTokens == 7
MaxEvals == 2
MaxCompiles == 2

EmptyCtx == [k \in {} |-> Undef]

Ident(name) == Tok("identifier", name)
BinOp(op) == Tok("binaryOp", op)
Punct(type) == Tok(type, "")

\* The token alphabet of each family of expressions.
Alphabet(pr) ==
    CASE pr = "precedence" ->
            {LitTok(Num(1)), LitTok(Num(2))}
            \cup {BinOp(op) : op \in {"**", "+", "-", "*", "***"}}
      [] pr = "assignment" ->
            {LitTok(Num(0)), LitTok(Num(1)), LitTok(Num(2)), Ident("x"), Ident("y"),
             BinOp("="), BinOp("-"), Punct("question"), Punct("colon"),
             Punct("semicolon")}
      [] pr = "logic" ->
            {LitTok(Num(0)), LitTok(Num(1)), Ident("x"), Ident("g"),
             BinOp("&&"), BinOp("||"), BinOp("="),
             Punct("openParen"), Punct("closeParen")}
      [] pr = "calls" ->
            {LitTok(Num(1)), Ident("x"), Ident("add1"), Ident("abort"),
             Ident("zero"), Ident("g"), Punct("pipe"), Punct("openParen"),
             Punct("closeParen")}
      [] pr = "order" ->
            {LitTok(Num(1)), Ident("x"), Ident("add1"), Punct("openParen"),
             Punct("closeParen"), Punct("comma"), BinOp("+"), BinOp("="),
             Punct("openBracket"), Punct("closeBracket")}
      [] pr = "grouping" ->
            {LitTok(Num(1)), Ident("x"), BinOp("+"), BinOp("*"),
             Punct("openParen"), Punct("closeParen")}
      [] pr = "chain" ->
            {LitTok(Num(1)), Ident("x"), Ident("add1"), Punct("dot"), BinOp("="),
             Punct("openParen"), Punct("closeParen")}
      [] pr = "template" ->
            {TemplateTok(<<Static("just a string")>>),
             TemplateTok(<<Static("Code: \\" \o Backtick \o "x\\" \o Backtick)>>),
             TemplateTok(<<Static("\\$"), Interpolation(<<Ident("x")>>),
                           Static(" each")>>),
             TemplateTok(<<>>),
             Ident("x"), BinOp("||")}
      [] pr = "filter" ->
            {LitTok(Num(0)), Ident("x"), Ident("a"), Ident("length"),
             Punct("dot"), Punct("openBracket"), Punct("closeBracket"),
             Punct("openParen"), Punct("closeParen")}

elemA(n) == Obj("a" :> Num(n))

\* The contexts each family is evaluated against.
Contexts(pr) ==
    CASE pr = "precedence" -> {EmptyCtx}
      [] pr = "assignment" -> {EmptyCtx, "x" :> Num(5)}
      [] pr = "logic" -> {EmptyCtx, "x" :> Num(1)}
      [] pr = "calls" -> {EmptyCtx, "x" :> Num(5)}
      [] pr = "order" -> {"x" :> Num(5)}
      [] pr = "expression" -> {EmptyCtx, "x" :> Num(5)}
      [] pr = "grouping" -> {EmptyCtx, "x" :> Num(5)}
      [] pr = "chain" -> {EmptyCtx, "x" :> Num(5), "x" :> Obj("add1" :> Num(7))}
      [] pr = "template" -> {EmptyCtx, "x" :> Num(5), "x" :> Str("\\" \o Backtick)}
      [] pr = "filter" ->
            {EmptyCtx,
             "x" :> Null,
             "x" :> Arr(<<elemA(1), elemA(0), elemA(2)>>),
             "x" :> Arr(<<Arr(<<elemA(1)>>), elemA(2)>>),
             "x" :> Obj(("a" :> Arr(<<Arr(<<>>), elemA(1)>>))
                        @@ ("length" :> Arr(<<>>)))}

NoOutcome == [err |-> "", thrown |-> Undef, val |-> Undef, log |-> <<>>]

\* No call has been made on the PromiseSync.
NoCall == [op |-> "none", handler |-> FALSE, resolved |-> FALSE, rejected |-> FALSE]

InitFor(pr) ==
    /\ profile = pr
    /\ tokens = <<>>
    /\ parser = NewParser(NoStops)
    /\ nodes = <<>>
    /\ ast = 0
    /\ phase = "parsing"
    /\ ctx0 = EmptyCtx
    /\ context = EmptyCtx
    /\ outcome = NoOutcome
    /\ evals = 0
    /\ compiles = [explicit |-> 0, lazy |-> 0]
    /\ ops = DOMAIN elements
    /\ promise = Unsettled
    /\ lastCall = NoCall
    /\ calls = 0

\* parser.addToken(token), one token of the lexer's output.
AddToken(token) ==
    /\ phase = "parsing"
    /\ Len(tokens) < MaxTokens
    /\ LET r == addToken(Machine(parser, nodes), token) IN
       /\ tokens' = Append(tokens, token)
       /\ IF r.m.err # ""
          THEN /\ phase' = "failed"
               /\ outcome' = [NoOutcome EXCEPT !.err = r.m.err]
               /\ UNCHANGED <<parser, nodes>>
          ELSE /\ parser' = r.m.p
               /\ nodes' = r.m.nodes
               /\ UNCHANGED <<phase, outcome>>
    /\ UNCHANGED pvars
    /\ UNCHANGED <<profile, ast, ctx0, context, evals, compiles, ops>>

\* Expression.compile once the tokens are in: this._ast = parser.complete().
Complete ==
    /\ phase = "parsing"
    /\ LET c == complete(Machine(parser, nodes)) IN
       IF c.m.err # ""
       THEN /\ phase' = "failed"
            /\ outcome' = [NoOutcome EXCEPT !.err = c.m.err]
            /\ UNCHANGED <<parser, nodes, ast>>
       ELSE /\ phase' = "compiled"
            /\ parser' = c.m.p
            /\ nodes' = c.m.nodes
            /\ ast' = c.ast
            /\ UNCHANGED outcome
    /\ compiles' = [compiles EXCEPT !.explicit = @ + 1]
    /\ UNCHANGED pvars
    /\ UNCHANGED <<profile, tokens, ctx0, context, evals, ops>>

\* What an eval leaves behind: g is what _getAst returned, st the state the
\* evaluation ended in, out its outcome for the host.
Evaluation(g, st, out, ctx) ==
    /\ parser' = g.p
    /\ nodes' = g.nodes
    /\ ast' = g.ast
    /\ compiles' = IF g.compiled THEN [compiles EXCEPT !.lazy = @ + 1] ELSE compiles
    /\ outcome' = out
    /\ context' = st.ctx
    /\ ctx0' = ctx
    /\ phase' = "evaluated"
    /\ evals' = evals + 1
    /\ UNCHANGED pvars
    /\ UNCHANGED <<profile, tokens, ops>>

\* The outcome of an evaluation that ended in state st.
thrownOrValue(st) ==
    [err |-> st.err, thrown |-> st.thrown, val |-> st.val, log |-> st.log]

\* evalSync's `if (res.error) throw res.error; return res.value`.
errorOrValue(e) ==
    IF Truthy(e.res.error)
    THEN [err |-> e.st.err, thrown |-> e.res.error, val |-> Undef, log |-> e.st.log]
    ELSE [err |-> "", thrown |-> Undef, val |-> e.res.value, log |-> e.st.log]

\* eval returning or raising after the evaluation ended in st; eval running
\* the evaluator on what _getAst returned; and the same two for evalSync.
EvalEnds(g, st, ctx) == Evaluation(g, st, thrownOrValue(st), ctx)
EvalRuns(g, ctx, given) == EvalEnds(g, evaluator(g, ctx), given)
EvalSyncEnds(g, e, ctx) == Evaluation(g, e.st, errorOrValue(e), ctx)
EvalSyncRuns(g, ctx) == EvalSyncEnds(g, _eval(g, ctx), ctx)

\* The Expression exists and no compile() of it is under way.
CanEval == phase \in {"created", "compiled", "evaluated", "rejected"}

\* An eval that keeps the Evaluator of the call before it, and with it that
\* call's context, instead of making a new one for the context it is given.
EvaluateStale(ctx) ==
    /\ CanEval
    /\ evals < MaxEvals
    /\ EvalRuns(_getAst, IF evals > 0 THEN context ELSE ctx, ctx)

\* Expression.eval(context): the AST is fetched, compiled first if there is
\* none, and a new Evaluator walks it.
Evaluate(ctx) ==
    /\ CanEval
    /\ evals < MaxEvals
    /\ EvalRuns(_getAst, ctx, ctx)

\* Expression.evalSync(context): the evaluation runs inside a PromiseSync,
\* and the promise's error, if it has one, is thrown to the host; `err` is
\* "" when evalSync returned.
EvalSync(ctx) ==
    /\ CanEval
    /\ evals < MaxEvals
    /\ EvalSyncRuns(_getAst, ctx)

\* Expression.compile(), called by the host: the source is lexed and parsed
\* under the grammar as it is now, and the AST it yields is cached; when
\* it throws, the Expression is left as it was.
Compile ==
    /\ CanEval
    /\ compiles.explicit < MaxCompiles
    /\ LET c == compile(tokens) IN
       IF c.m.err # ""
       THEN /\ phase' = "rejected"
            /\ outcome' = [NoOutcome EXCEPT !.err = c.m.err, !.thrown = Error(c.m.err)]
            /\ UNCHANGED <<parser, nodes, ast>>
       ELSE /\ phase' = "compiled"
            /\ parser' = c.m.p
            /\ nodes' = c.m.nodes
            /\ ast' = c.ast
            /\ UNCHANGED outcome
    /\ compiles' = [compiles EXCEPT !.explicit = @ + 1]
    /\ UNCHANGED pvars
    /\ UNCHANGED <<profile, tokens, ctx0, context, evals, ops>>

\* Jexl.removeOp(op): delete grammar.elements[op].
removeOp(op) ==
    /\ op \in ops
    /\ ops' = ops \ {op}
    /\ UNCHANGED pvars
    /\ UNCHANGED <<profile, tokens, parser, nodes, ast, phase, ctx0, context,
                   outcome, evals, compiles>>

\* Jexl.addBinaryOp(op, precedence, fn) for an operator the grammar lacks.
addBinaryOp(op) ==
    /\ op \notin ops
    /\ elements[op].type = "binaryOp"
    /\ ops' = ops \cup {op}
    /\ UNCHANGED pvars
    /\ UNCHANGED <<profile, tokens, parser, nodes, ast, phase, ctx0, context,
                   outcome, evals, compiles>>

\* Jexl.addUnaryOp(op, fn) for an operator the grammar lacks.
addUnaryOp(op) ==
    /\ op \notin ops
    /\ elements[op].type = "unaryOp"
    /\ ops' = ops \cup {op}
    /\ UNCHANGED pvars
    /\ UNCHANGED <<profile, tokens, parser, nodes, ast, phase, ctx0, context,
                   outcome, evals, compiles>>

\* The host evaluates again, handing in the object it handed in before:
\* `context` is what that object holds by now.
Reevaluate ==
    /\ phase = "evaluated"
    /\ Evaluate(context)

Next ==
    \/ \E token \in Alphabet(profile) : AddToken(token)
    \/ Complete
    \/ \E ctx \in Contexts(profile) : Evaluate(ctx)
    \/ \E ctx \in Contexts(profile) : EvalSync(ctx)
    \/ Reevaluate

Init == InitFor("assignment")
Spec == Init /\ [][Next]_vars

InitPrecedence == InitFor("precedence")
SpecPrecedence == InitPrecedence /\ [][Next]_vars

InitLogic == InitFor("logic")
SpecLogic == InitLogic /\ [][Next]_vars

InitFilter == InitFor("filter")
SpecFilter == InitFilter /\ [][Next]_vars

InitCalls == InitFor("calls")
SpecCalls == InitCalls /\ [][Next]_vars

InitOrder == InitFor("order")
SpecOrder == InitOrder /\ [][Next]_vars

InitGrouping == InitFor("grouping")
SpecGrouping == InitGrouping /\ [][Next]_vars

InitChain == InitFor("chain")
SpecChain == InitChain /\ [][Next]_vars

InitTemplate == InitFor("template")
SpecTemplate == InitTemplate /\ [][Next]_vars

\* The sources Expressions are made from, as the lexemes they read as:
\* the empty source, `1 + 1`, `! 1`, `x = 1 + x`, the incomplete `1 +`,
\* and three in which the callable abort throws: `x = abort()`,
\* `y = 1; abort(); x = 2` and `x = 1 ? abort() : 2`.
Sources ==
    {<<>>,
     <<LitTok(Num(1)), BinOp("+"), LitTok(Num(1))>>,
     <<Tok("unaryOp", "!"), LitTok(Num(1))>>,
     <<Ident("x"), BinOp("="), LitTok(Num(1)), BinOp("+"), Ident("x")>>,
     <<LitTok(Num(1)), BinOp("+")>>,
     <<Ident("x"), BinOp("="), Ident("abort"), Punct("openParen"),
       Punct("closeParen")>>,
     <<Ident("y"), BinOp("="), LitTok(Num(1)), Punct("semicolon"),
       Ident("abort"), Punct("openParen"), Punct("closeParen"),
       Punct("semicolon"), Ident("x"), BinOp("="), LitTok(Num(2))>>,
     <<Ident("x"), BinOp("="), LitTok(Num(1)), Punct("question"),
       Ident("abort"), Punct("openParen"), Punct("closeParen"),
       Punct("colon"), LitTok(Num(2))>>}

\* The operators the host removes from the grammar and adds to it again.
HostOps == {"+", "!"}

\* new Expression(grammar, source): nothing is compiled yet.
InitExpression ==
    /\ profile = "expression"
    /\ tokens \in Sources
    /\ parser = NewParser(NoStops)
    /\ nodes = <<>>
    /\ ast = 0
    /\ phase = "created"
    /\ ctx0 = EmptyCtx
    /\ context = EmptyCtx
    /\ outcome = NoOutcome
    /\ evals = 0
    /\ compiles = [explicit |-> 0, lazy |-> 0]
    /\ ops = DOMAIN elements
    /\ promise = Unsettled
    /\ lastCall = NoCall
    /\ calls = 0

\* An Expression object over its life: compiled on demand or on request,
\* evaluated, while the host changes the grammar.
NextExpression ==
    \/ Compile
    \/ \E ctx \in Contexts(profile) : Evaluate(ctx)
    \/ \E ctx \in Contexts(profile) : EvalSync(ctx)
    \/ Reevaluate
    \/ \E op \in HostOps : removeOp(op)
    \/ \E op \in HostOps : addBinaryOp(op)
    \/ \E op \in HostOps : addUnaryOp(op)

SpecExpression == InitExpression /\ [][NextExpression]_vars

----------------------------------------------------------------------------
(* A PromiseSync object in the host's hands: made by new PromiseSync(fn),  *)
(* then chained with then and catch.                                       *)

MaxCalls == 4

\* The plain values a promise is settled with, falsy and truthy ones.
PValues == {Undef, Num(0), Num(1), Str(""), Error("oops")}

\* PromiseSync objects a callback or an executor may hand on.
Nested == {PromiseSync(Num(1), Undef), PromiseSync(Undef, Num(0)),
           PromiseSync(Undef, Error("oops"))}

\* How a callback ended: it returned v, or it threw v.
Returned(v) == [err |-> "", thrown |-> Undef, val |-> v]
Threw(v) == [err |-> "thrown", thrown |-> v, val |-> Undef]

Callbacks ==
    {Returned(v) : v \in PValues \cup Nested} \cup {Threw(v) : v \in PValues}

\* The executors: up to two calls of resolve and reject.
SettleCalls ==
    {[call |-> "resolve", val |-> v] : v \in PValues \cup Nested}
        \cup {[call |-> "reject", val |-> v] : v \in PValues}

Executors == {<<>>} \cup {<<c>> : c \in SettleCalls}
                \cup {<<c, d>> : c \in SettleCalls, d \in SettleCalls}

\* What the other variables do while the host works on the promise.
ExpressionIdle ==
    UNCHANGED <<profile, tokens, parser, nodes, ast, phase, ctx0, context,
                outcome, evals, compiles, ops>>

\* new PromiseSync(fn); PromiseSync.resolve and PromiseSync.reject are the
\* executors of one call.
New(fn) ==
    /\ lastCall.op = "none"
    /\ promise' = construct(Unsettled, fn)
    /\ lastCall' = [NoCall EXCEPT !.op = "new"]
    /\ calls' = calls + 1
    /\ ExpressionIdle

\* promise.then(resolved), no rejection handler given.
Then(resolved) ==
    /\ lastCall.op # "none"
    /\ calls < MaxCalls
    /\ promise' = then(promise, resolved)
    /\ lastCall' = [op |-> "then", handler |-> FALSE,
                    resolved |-> thenCalls(promise), rejected |-> FALSE]
    /\ calls' = calls + 1
    /\ ExpressionIdle

\* promise.then(resolved, rejected): `if (rejected) this.catch(rejected)`
\* runs on the promise as the first half left it.
ThenCatch(resolved, rejected) ==
    /\ lastCall.op # "none"
    /\ calls < MaxCalls
    /\ promise' = catch(then(promise, resolved), rejected)
    /\ lastCall' = [op |-> "then", handler |-> TRUE,
                    resolved |-> thenCalls(promise),
                    rejected |-> catchCalls(then(promise, resolved))]
    /\ calls' = calls + 1
    /\ ExpressionIdle

\* promise.catch(rejected).
Catch(rejected) ==
    /\ lastCall.op # "none"
    /\ calls < MaxCalls
    /\ promise' = catch(promise, rejected)
    /\ lastCall' = [op |-> "catch", handler |-> TRUE, resolved |-> FALSE,
                    rejected |-> catchCalls(promise)]
    /\ calls' = calls + 1
    /\ ExpressionIdle

NextPromise ==
    \/ \E fn \in Executors : New(fn)
    \/ \E resolved \in Callbacks : Then(resolved)
    \/ \E resolved \in Callbacks, rejected \in Callbacks : ThenCatch(resolved, rejected)
    \/ \E rejected \in Callbacks : Catch(rejected)

InitPromise == InitFor("promise")
SpecPromise == InitPromise /\ [][NextPromise]_vars

----------------------------------------------------------------------------
(* Properties.                                                             *)

\* The nodes of the subtree under node n (none under the null node).
RECURSIVE Subtree(_, _)
Subtree(ns, n) ==
    IF n = 0 THEN {}
    ELSE LET kids == {ns[n].left, ns[n].right, ns[n].from, ns[n].expr,
                      ns[n].subject, ns[n].test, ns[n].consequent,
                      ns[n].alternate}
                     \cup {ns[n].args[i] : i \in DOMAIN ns[n].args}
                     \cup {ns[n].elems[i] : i \in DOMAIN ns[n].elems}
                     \cup {ns[n].expressions[i] : i \in DOMAIN ns[n].expressions}
                     \cup {ns[n].parts[i].node : i \in DOMAIN ns[n].parts}
         IN  {n} \cup UNION {Subtree(ns, k) : k \in kids \ {0, n}}

Evaluated == phase = "evaluated"
Compiled == phase \in {"compiled", "evaluated"}

\* How often the last evaluation entered node n.
Entered(n) ==
    Cardinality({i \in DOMAIN outcome.log :
                    outcome.log[i].ev = "enter" /\ outcome.log[i].n = n})

HasToken(tok) == \E i \in DOMAIN tokens : tokens[i] = tok

\* Every ternary has its alternate and every bracket its expression.
WellFormed ==
    \A n \in DOMAIN nodes :
       /\ nodes[n].type = "ConditionalExpression" => nodes[n].alternate # 0
       /\ nodes[n].type = "FilterExpression" => nodes[n].expr # 0

\* The value of a one-token operand under the context of the last evaluation.
OperandValue(tok) == evalSync(<<tok>>, ctx0).val

IsOperandToken(tok) == tok.type \in {"literal", "identifier"}

\* C1: evaluating `x = e`, for an expression e that evaluates without error
\* to v against the context c, returns v and leaves c[x] = v.
C1_AssignmentReturnsAndBinds ==
    (/\ Evaluated
     /\ WellFormed
     /\ Len(tokens) >= 3
     /\ tokens[1].type = "identifier"
     /\ tokens[2] = BinOp("=")
     /\ ~HasToken(Punct("semicolon")))
    => LET e == evalSync(SubSeq(tokens, 3, Len(tokens)), ctx0) IN
       e.err = "" =>
          /\ outcome.err = ""
          /\ outcome.val = e.val
          /\ tokens[1].value \in DOMAIN context
          /\ context[tokens[1].value] = e.val

\* The token positions of the `;` separators, and the items between them.
Separators == {i \in DOMAIN tokens : tokens[i].type = "semicolon"}

ItemStarts == {1} \cup {i + 1 : i \in Separators}

ItemAt(i) ==
    LET ends == {j \in Separators : j > i} IN
    SubSeq(tokens, i, IF ends = {} THEN Len(tokens)
                      ELSE (CHOOSE j \in ends : \A k \in ends : j <= k) - 1)

\* Evaluating the items from position i on, one by one, each against the
\* context the previous left: the evaluation state after the last item.
RECURSIVE ItemByItem(_, _)
ItemByItem(i, st) ==
    LET r == evalSync(ItemAt(i), st.ctx)
        next == i + Len(ItemAt(i)) + 1
    IN  IF r.err # "" \/ next > Len(tokens) THEN r ELSE ItemByItem(next, r)

\* C2: evaluating `e1; ...; en` evaluates the items in source order against
\* the one context and returns the value of the last item.
C2_SequenceInOrderLastValue ==
    (/\ Evaluated
     /\ WellFormed
     /\ Separators # {}
     /\ \A i \in ItemStarts : i <= Len(tokens) /\ ItemAt(i) # <<>>)
    => LET r == ItemByItem(1, NewEvaluator(ctx0)) IN
       r.err = "" =>
          /\ outcome.err = ""
          /\ outcome.val = r.val
          /\ context = r.ctx

ShortCircuits(b) ==
    nodes[b].type = "BinaryExpression" /\ nodes[b].operator \in {"&&", "||"}

\* C3: when the left operand of `&&` returns a falsy value, or that of `||` a
\* truthy one, no node of the right operand's subtree is evaluated and the
\* operator returns the left value; otherwise the right operand is evaluated
\* next, once; the left operand is evaluated exactly once.
Thm_C3_ShortCircuit ==
    Evaluated =>
    \A i \in DOMAIN outcome.log : \A b \in DOMAIN nodes :
       LET e == outcome.log[i] IN
       (ShortCircuits(b) /\ e.ev = "return" /\ e.n = nodes[b].left) =>
          /\ Entered(e.n) = 1
          /\ i < Len(outcome.log)
          /\ IF (nodes[b].operator = "&&") # Truthy(e.val)
             THEN /\ \A k \in Subtree(nodes, nodes[b].right) : Entered(k) = 0
                  /\ outcome.log[i + 1] = Return(b, e.val)
             ELSE /\ outcome.log[i + 1] = Enter(nodes[b].right)
                  /\ Entered(nodes[b].right) = 1

\* `0 && ...g()...`: the call of the unregistered g would raise.
Wit_C3_ShortCircuit ==
    /\ Evaluated
    /\ outcome.err = ""
    /\ \E b \in DOMAIN nodes :
          /\ ShortCircuits(b)
          /\ Entered(b) = 1
          /\ \E k \in Subtree(nodes, nodes[b].right) :
                nodes[k].type = "FunctionCall" /\ nodes[k].name = "g"

prec(i) == elements[tokens[i].value].precedence

\* In an operand/operator alternation every token makes one node, so the
\* node of the i-th token is node i.
Binary(n, op, left, right) ==
    /\ nodes[n].type = "BinaryExpression"
    /\ nodes[n].operator = tokens[op].value
    /\ nodes[n].left = left
    /\ nodes[n].right = right

\* C4: `a OPq b OPp c OPq d` with p > q parses to ((a OPq (b OPp c)) OPq d),
\* and `a OP b OP c` with equal precedences to ((a OP b) OP c), whatever the
\* precedences registered.
Thm_C4_Precedence ==
    Compiled =>
    /\ (Len(tokens) = 7 /\ prec(2) = prec(6) /\ prec(4) > prec(2)) =>
          /\ ast = 6
          /\ Binary(6, 6, 2, 7)
          /\ Binary(2, 2, 1, 4)
          /\ Binary(4, 4, 3, 5)
    /\ (Len(tokens) = 5 /\ prec(2) = prec(4)) =>
          /\ ast = 4
          /\ Binary(4, 4, 2, 5)
          /\ Binary(2, 2, 1, 3)

\* `a ** b *** c ** d`: the precedences 0 and 1000.
Wit_C4_Precedence ==
    /\ Compiled
    /\ Len(tokens) = 7
    /\ tokens[2].value = "**"
    /\ tokens[4].value = "***"
    /\ tokens[6].value = "**"

\* A token after which a new operand starts.
OpensOperand(i) ==
    \/ i = 0
    \/ tokens[i].type \in {"semicolon", "question", "colon"}
    \/ tokens[i] = BinOp("=")

\* C5: when `=` comes after a literal or after the last operand of a
\* compound expression, compiling raises 'Left side of assignment must be a
\* variable name'.
C5_AssignmentTargetError ==
    LET k == Len(tokens) IN
    (/\ k >= 2
     /\ tokens[k] = BinOp("=")
     /\ IsOperandToken(tokens[k - 1])
     /\ ~(tokens[k - 1].type = "identifier" /\ OpensOperand(k - 2)))
    => /\ phase = "failed"
       /\ outcome.err = "Left side of assignment must be a variable name"

\* C6: `x = t ? c : a` assigns to x, and returns, the value of c when t is
\* truthy and the value of a otherwise.
C6_AssignsTernaryResult ==
    (/\ Evaluated
     /\ Len(tokens) = 7
     /\ tokens[1].type = "identifier"
     /\ tokens[2] = BinOp("=")
     /\ tokens[4].type = "question"
     /\ tokens[6].type = "colon"
     /\ \A i \in {3, 5, 7} : IsOperandToken(tokens[i]))
    => LET v == IF Truthy(OperandValue(tokens[3])) THEN OperandValue(tokens[5])
                ELSE OperandValue(tokens[7])
       IN  /\ outcome.err = ""
           /\ outcome.val = v
           /\ tokens[1].value \in DOMAIN context
           /\ context[tokens[1].value] = v

RelativeFilterOnX ==
    tokens = <<Ident("x"), Punct("openBracket"), Punct("dot"), Ident("a"),
               Punct("closeBracket")>>

IndexOnX ==
    tokens = <<Ident("x"), Punct("openBracket"), LitTok(Num(0)),
               Punct("closeBracket")>>

SubjectX == IF "x" \in DOMAIN ctx0 THEN ctx0["x"] ELSE Undef

PassesA(element) == Truthy(GetProp(element, "a"))

\* C7: the relative filter `x[.a]` over an array x returns the elements of x
\* whose `a` is truthy, in their order, raises nothing and leaves the context
\* as it was.
C7_RelativeFilterSelects ==
    (Evaluated /\ RelativeFilterOnX /\ SubjectX.t = "array")
    => /\ outcome.err = ""
       /\ outcome.val = Arr(SelectSeq(SubjectX.a, PassesA))
       /\ context = ctx0

\* C8: a FilterExpression is relative exactly when the subtree of its expr
\* holds a relative identifier.
C8_RelativeIffRelativeIdentifier ==
    (Compiled /\ WellFormed) =>
    \A f \in Subtree(nodes, ast) :
       nodes[f].type = "FilterExpression" =>
          (nodes[f].relative <=>
             \E k \in Subtree(nodes, nodes[f].expr) :
                nodes[k].type = "Identifier" /\ nodes[k].relative)

\* C9: with a null or undefined subject, the relative form `x[.a]` returns the
\* empty array and the index form `x[0]` returns undefined; neither raises.
C9_FilterOnNullishSubject ==
    (Evaluated /\ (RelativeFilterOnX \/ IndexOnX) /\ IsNullish(SubjectX))
    => /\ outcome.err = ""
       /\ outcome.val = IF RelativeFilterOnX THEN Arr(<<>>) ELSE Undef

\* A return of a member access `expr.prop` from the value expr returned,
\* which is the log entry before it.
MemberReturn(i) ==
    /\ i > 1
    /\ outcome.log[i].ev = "return"
    /\ outcome.log[i].n # 0
    /\ nodes[outcome.log[i].n].type = "Identifier"
    /\ nodes[outcome.log[i].n].from # 0

\* C10: `expr.prop` on an array reads prop from the array's element 0, and
\* from that element itself even when it is an array in turn.
Thm_C10_ProjectionOneLevel ==
    Evaluated =>
    \A i \in DOMAIN outcome.log :
       MemberReturn(i) =>
          LET e == outcome.log[i]
              from == outcome.log[i - 1]
              prop == nodes[e.n].name
          IN  /\ from = Return(nodes[e.n].from, from.val)
              /\ e.val = IF from.val.t # "array" THEN GetProp(from.val, prop)
                         ELSE IF from.val.a = <<>> THEN Undef
                         ELSE GetProp(from.val.a[1], prop)

\* `x.length` where x[0] is an array of another length than x.
Wit_C10_ProjectionOneLevel ==
    /\ Evaluated
    /\ \E i \in DOMAIN outcome.log :
          /\ MemberReturn(i)
          /\ nodes[outcome.log[i].n].name = "length"
          /\ outcome.log[i - 1].val.t = "array"
          /\ outcome.log[i - 1].val.a # <<>>
          /\ outcome.log[i - 1].val.a[1].t = "array"
          /\ Len(outcome.log[i - 1].val.a[1].a) # Len(outcome.log[i - 1].val.a)
          /\ outcome.log[i].val = Num(Len(outcome.log[i - 1].val.a[1].a))

----------------------------------------------------------------------------
\* The subject of a member access has returned nothing to read from: null,
\* undefined or an empty array.
MissingSubject(v) == IsNullish(v) \/ (v.t = "array" /\ v.a = <<>>)

\* Entry i of the log is the return of the subject of member access n.
SubjectReturn(i, n) ==
    /\ outcome.log[i].ev = "return"
    /\ nodes[n].type = "Identifier"
    /\ nodes[n].from # 0
    /\ outcome.log[i].n = nodes[n].from

\* C11: at every link of a chain, a member access whose subject evaluated to
\* null, undefined or an empty array returns undefined; it does not raise.
Thm_C11_MissingSubjectYieldsUndefined ==
    Evaluated =>
    \A i \in DOMAIN outcome.log : \A n \in DOMAIN nodes :
       (SubjectReturn(i, n) /\ MissingSubject(outcome.log[i].val)) =>
          /\ i < Len(outcome.log)
          /\ outcome.log[i + 1] = Return(n, Undef)

\* A chain of two links whose inner link returned an empty array, and one
\* whose inner link returned undefined, each followed by the outer return.
Wit_C11_MissingSubjectYieldsUndefined ==
    /\ Evaluated
    /\ outcome.err = ""
    /\ \E i \in DOMAIN outcome.log : \E n \in DOMAIN nodes :
          /\ SubjectReturn(i, n)
          /\ nodes[nodes[n].from].type = "Identifier"
          /\ nodes[nodes[n].from].from # 0
          /\ outcome.log[i].val = Arr(<<>>)
          /\ i < Len(outcome.log)
          /\ outcome.log[i + 1] = Return(n, Undef)

----------------------------------------------------------------------------
\* The log positions at which node n returned.
Returns(n) ==
    {i \in DOMAIN outcome.log :
        outcome.log[i].ev = "return" /\ outcome.log[i].n = n}

\* The log continues after position j with entry e.
NextIs(j, e) == j < Len(outcome.log) /\ outcome.log[j + 1] = e

\* Ternary c behaved as specified in the last evaluation: once its test has
\* returned v at position j, the branch v selects is the next thing entered
\* and the other branch is never entered; without a consequent a truthy v is
\* returned at once; and what c returns is what the log entry before returned.
TernaryOnce(c) ==
    LET test == nodes[c].test
        cons == nodes[c].consequent
        alt == nodes[c].alternate
    IN  /\ Entered(test) = 1
        /\ \A j \in Returns(test) :
              LET v == outcome.log[j].val IN
              IF Truthy(v)
              THEN /\ IF cons # 0 THEN NextIs(j, Enter(cons))
                                  ELSE NextIs(j, Return(c, v))
                   /\ alt # 0 => Entered(alt) = 0
              ELSE /\ NextIs(j, Enter(alt))
                   /\ cons # 0 => Entered(cons) = 0
        /\ (IF cons # 0 THEN Entered(cons) ELSE 0)
              + (IF alt # 0 THEN Entered(alt) ELSE 0) <= 1
        /\ \A k \in Returns(c) :
              /\ k > 1
              /\ outcome.log[k - 1].ev = "return"
              /\ outcome.log[k - 1].val = outcome.log[k].val
              /\ outcome.log[k - 1].n \in
                    (IF Entered(cons) = 1 /\ cons # 0 THEN {cons}
                     ELSE IF Entered(alt) = 1 /\ alt # 0 THEN {alt} ELSE {test})

\* C12: a ternary evaluates its test exactly once and then exactly one
\* branch: truthy gives the consequent's value, or the test's own value when
\* the consequent is omitted, and never evaluates the alternate; falsy gives
\* the alternate's value and never evaluates the consequent.
Thm_C12_TernaryOneBranch ==
    Evaluated =>
    \A c \in DOMAIN nodes :
       (nodes[c].type = "ConditionalExpression" /\ Entered(c) = 1) => TernaryOnce(c)

\* `t ?: a` with a truthy t: the ternary returns t's value right after t
\* returned it and a is not evaluated.
Wit_C12_TernaryOneBranch ==
    /\ Evaluated
    /\ outcome.err = ""
    /\ WellFormed
    /\ \E c \in DOMAIN nodes :
          /\ nodes[c].type = "ConditionalExpression"
          /\ Entered(c) = 1
          /\ nodes[c].consequent = 0
          /\ Entered(nodes[c].alternate) = 0
          /\ \E j \in Returns(nodes[c].test) :
                /\ Truthy(outcome.log[j].val)
                /\ NextIs(j, Return(c, outcome.log[j].val))

----------------------------------------------------------------------------
\* The calls of FunctionCall n that the last evaluation logged.
Calls(n) ==
    {i \in DOMAIN outcome.log :
        outcome.log[i].ev = "call" /\ outcome.log[i].n = n}

\* The compiled tree is a call of a registered, returning transform.
PipesIntoTransform ==
    /\ ast # 0
    /\ nodes[ast].type = "FunctionCall"
    /\ nodes[ast].pool = "transforms"
    /\ nodes[ast].name \in DOMAIN transforms
    /\ transforms[nodes[ast].name].kind # "throw"

\* C13: `x | f(a1, ..., an)` parses to a FunctionCall of the transforms pool
\* with args [x, a1, ..., an], and evaluating it calls the registered
\* transform f once with the values of x, a1, ..., an in that order and
\* returns what f returns.
C13_PipeCallsTransform ==
    /\ (Compiled /\ Len(tokens) = 3 /\ IsOperandToken(tokens[1])
           /\ tokens[2].type = "pipe" /\ tokens[3].type = "identifier") =>
          /\ nodes[ast].type = "FunctionCall"
          /\ nodes[ast].pool = "transforms"
          /\ nodes[ast].name = tokens[3].value
          /\ Len(nodes[ast].args) = 1
          /\ nodes[nodes[ast].args[1]].type \in {"Literal", "Identifier"}
    /\ (Evaluated /\ PipesIntoTransform) =>
          LET a == evalArray(nodes, nodes[ast].args, NewEvaluator(ctx0))
              f == transforms[nodes[ast].name]
          IN  a.err = "" =>
                 /\ outcome.err = ""
                 /\ Cardinality(Calls(ast)) = 1
                 /\ \A i \in Calls(ast) : outcome.log[i].val = a.val
                 /\ outcome.val = apply(f, ast, a.val.a, a).val

----------------------------------------------------------------------------
\* The message of the spec's UnknownCallable error for FunctionCall n.
UnknownCallable(n) ==
    (IF nodes[n].pool = "functions" THEN "Jexl Function " ELSE "Jexl Transform ")
       \o nodes[n].name \o " is not defined."

\* C14: evaluating a FunctionCall whose name is not registered in its pool
\* raises the error that names the pool and the callable, 'Jexl Function
\* <name> is not defined.' or 'Jexl Transform <name> is not defined.', and
\* the call never returns a value.
C14_UnknownCallableNamed ==
    Evaluated =>
    \A n \in DOMAIN nodes :
       (/\ nodes[n].type = "FunctionCall"
        /\ Entered(n) >= 1
        /\ nodes[n].name \notin DOMAIN grammarPool(nodes[n].pool)) =>
          /\ Returns(n) = {}
          /\ outcome.err = UnknownCallable(n)

----------------------------------------------------------------------------
\* The values registered callables threw during the last evaluation.
CallableThrew == {outcome.log[i].val : i \in {j \in DOMAIN outcome.log :
                                                 outcome.log[j].ev = "throw"}}

\* C15: whenever a registered function or transform raises while an
\* expression is evaluated, at any depth and whatever value it throws, the
\* synchronous evaluate call raises to the host, carrying that value, and
\* does not return normally.
C15_CallableErrorReachesHost ==
    Evaluated =>
    \A v \in CallableThrew : outcome.err # "" /\ outcome.thrown = v

----------------------------------------------------------------------------
\* The log positions that belong to the evaluation of the subtree under a.
Within(a) == {i \in DOMAIN outcome.log : outcome.log[i].n \in Subtree(nodes, a)}

\* The evaluation of subtree a was over before that of subtree b began.
Precedes(a, b) == \A i \in Within(a) : \A j \in Within(b) : i < j

\* The children of node n in source order, where n evaluates them all.
OrderedChildren(n) ==
    CASE nodes[n].type = "BinaryExpression" /\ ~elements[nodes[n].operator].onDemand
            -> <<nodes[n].left, nodes[n].right>>
      [] nodes[n].type = "ArrayLiteral" -> nodes[n].elems
      [] nodes[n].type = "FunctionCall" -> nodes[n].args
      [] OTHER -> <<>>

\* The returns of assignments to `name` logged before position i.
AssignedBefore(name, i) ==
    {j \in 1..(i - 1) :
        /\ outcome.log[j].ev = "return"
        /\ outcome.log[j].n # 0
        /\ nodes[outcome.log[j].n].type = "AssignmentExpression"
        /\ nodes[nodes[outcome.log[j].n].left].name = name}

\* What a read of variable `name` at log position i has to see: the value
\* of the latest assignment to it so far, or else the supplied context's.
Visible(name, i) ==
    LET js == AssignedBefore(name, i) IN
    IF js = {}
    THEN IF name \in DOMAIN ctx0 THEN ctx0[name] ELSE Undef
    ELSE outcome.log[CHOOSE j \in js : \A k \in js : k <= j].val

\* C16: the operands of a strict binary operator, the elements of an array
\* literal and the arguments of a call are evaluated left to right, each
\* one fully (assignments and calls in it included) before the next starts,
\* so that a later one reads what an earlier one assigned.
Thm_C16_LeftToRight ==
    Evaluated =>
    /\ \A n \in DOMAIN nodes :
          LET kids == OrderedChildren(n) IN
          \A k \in DOMAIN kids : \A l \in DOMAIN kids :
             (k < l /\ kids[k] # 0 /\ kids[l] # 0) =>
                /\ Precedes(kids[k], kids[l])
                /\ Entered(kids[l]) >= 1 => Returns(kids[k]) # {}
    /\ \A i \in DOMAIN outcome.log :
          LET e == outcome.log[i] IN
          (/\ e.ev = "return" /\ e.n # 0
           /\ nodes[e.n].type = "Identifier"
           /\ nodes[e.n].from = 0 /\ ~nodes[e.n].relative) =>
             e.val = Visible(nodes[e.n].name, i)

\* `(x = 1) + x`: the right operand reads the 1 the left operand assigned,
\* not the context's x.
Wit_C16_LeftToRight ==
    /\ Evaluated
    /\ outcome.err = ""
    /\ \E n \in DOMAIN nodes :
          /\ nodes[n].type = "BinaryExpression"
          /\ ~elements[nodes[n].operator].onDemand
          /\ Returns(n) # {}
          /\ \E a \in Subtree(nodes, nodes[n].left) :
                nodes[a].type = "AssignmentExpression"
          /\ nodes[nodes[n].right].type = "Identifier"
          /\ \E i \in Returns(nodes[n].right) :
                /\ AssignedBefore(nodes[nodes[n].right].name, i) # {}
                /\ outcome.log[i].val = Num(1)
                /\ "x" \in DOMAIN ctx0
                /\ ctx0["x"] # Num(1)

----------------------------------------------------------------------------
\* This step is an evaluation that follows another one.
EvaluatesAgain == Evaluated /\ evals' = evals + 1

\* This step's evaluation returns, or raises, what the one before did.
SameResult == outcome'.val = outcome.val /\ outcome'.err = outcome.err

\* Every `=` follows the identifier that opens the expression or an item
\* of the sequence, and there is no ternary.
AssignsAtItemStart ==
    /\ ~HasToken(Punct("question"))
    /\ \A i \in DOMAIN tokens :
          tokens[i] = BinOp("=") =>
             /\ i >= 2
             /\ tokens[i - 1].type = "identifier"
             /\ i = 2 \/ tokens[i - 2].type = "semicolon"

----------------------------------------------------------------------------
\* This step is an eval; this step is a compile() the host called; this
\* step ran Expression.compile from inside an eval.
EvalStep == evals' = evals + 1
CompileStep == compiles'.explicit = compiles.explicit + 1
LazyCompile == compiles'.lazy = compiles.lazy + 1

\* C18: over any sequence of calls on one Expression, eval runs a
\* compilation at most once, on the first eval, and never after compile()
\* was called; and every compile() the host calls runs one and caches the
\* AST it yields.
C18_EvalCompilesAtMostOnce ==
    [][/\ LazyCompile => (compiles.lazy = 0 /\ compiles.explicit = 0 /\ evals = 0)
       /\ (EvalStep /\ ~LazyCompile) => compiles' = compiles
       /\ (CompileStep /\ phase' = "compiled") =>
             (ast' = compile(tokens).ast /\ nodes' = compile(tokens).m.nodes)]_vars

\* The source reads an operator the grammar does not hold at present.
UsesRemovedOp == tokenize(tokens) # ""

----------------------------------------------------------------------------
(* Template literals.                                                      *)

\* The expression is one template without interpolations.
StaticTemplateOnly ==
    /\ Len(tokens) = 1
    /\ tokens[1].type = "templateString"
    /\ \A i \in DOMAIN tokens[1].lit.parts : tokens[1].lit.parts[i].type = "static"

\* The parts ps of a template token from the i-th on as the expression
\* spells them, and as the lexer reads them.
RECURSIVE Spelled(_, _)
Spelled(ps, i) == IF i > Len(ps) THEN "" ELSE ps[i].raw \o Spelled(ps, i + 1)

RECURSIVE Unescaped(_, _)
Unescaped(ps, i) ==
    IF i > Len(ps) THEN "" ELSE unescape(ps[i].raw, 1) \o Unescaped(ps, i + 1)

\* The parts ps of a TemplateLiteral from the i-th on, joined: a static
\* part is its text, an expression part what the last evaluation returned
\* for it, as a string, and nothing when that is null or undefined.
RECURSIVE Rendered(_, _)
Rendered(ps, i) ==
    IF i > Len(ps) THEN ""
    ELSE (IF ps[i].type = "static" THEN ps[i].text
          ELSE IF IsNullish(outcome.log[CHOOSE k \in Returns(ps[i].node) : TRUE].val)
          THEN ""
          ELSE String(outcome.log[CHOOSE k \in Returns(ps[i].node) : TRUE].val))
            \o Rendered(ps, i + 1)

----------------------------------------------------------------------------
(* Invariants of the trees the parser returns.                             *)

\* The nodes of the tree the parser returned.
Tree == Subtree(nodes, ast)

\* C21: in every AST the parser returns, the target of every
\* AssignmentExpression is a bare Identifier, one without `from` that is not
\* relative; `x.add1 = 1` and `.x = 1` are not compiled.
C21_AssignmentTargetBare ==
    Compiled =>
        \A n \in Tree :
            nodes[n].type = "AssignmentExpression" =>
                /\ nodes[n].left # 0
                /\ nodes[nodes[n].left].type = "Identifier"
                /\ nodes[nodes[n].left].from = 0
                /\ ~nodes[nodes[n].left].relative

\* The BinaryExpressions among the two operands of node n.
BinaryOperands(n) ==
    {c \in {nodes[n].left, nodes[n].right} \ {0} :
        nodes[c].type = "BinaryExpression"}

\* No BinaryExpression of the tree is an operand of a BinaryExpression that
\* binds strictly tighter.
NoTighterParent ==
    \A n \in Tree :
        nodes[n].type = "BinaryExpression" =>
            \A c \in BinaryOperands(n) :
                elements[nodes[n].operator].precedence
                    <= elements[nodes[c].operator].precedence

\* C22 as stated: in every tree the parser returns no BinaryExpression has a
\* parent BinaryExpression of strictly higher precedence, parenthesised
\* sub-expressions placed as operands included.
C22_NoTighterParent == Compiled => NoTighterParent

\* The tokens read `( a OP b ) OP c`.
GroupedLeft ==
    /\ Len(tokens) = 7
    /\ tokens[1].type = "openParen"
    /\ tokens[3].type = "binaryOp"
    /\ tokens[5].type = "closeParen"
    /\ tokens[6].type = "binaryOp"

\* C22: in every tree the parser returns for tokens without parentheses no
\* BinaryExpression has a parent BinaryExpression of strictly higher
\* precedence; a parenthesised sub-expression is placed whole as the operand,
\* whatever the precedences: `( a OP b ) OP c` is the second operator over
\* the first.
Thm_C22_NoTighterParentUngrouped ==
    Compiled =>
        /\ ~HasToken(Punct("openParen")) => NoTighterParent
        /\ GroupedLeft =>
                /\ nodes[ast].type = "BinaryExpression"
                /\ nodes[ast].operator = tokens[6].value
                /\ nodes[ast].left # 0
                /\ nodes[nodes[ast].left].type = "BinaryExpression"
                /\ nodes[nodes[ast].left].operator = tokens[3].value

\* `a + b * c` and the like were compiled: an operator over an operator,
\* without parentheses.
Wit_C22_NoTighterParentUngrouped ==
    /\ Compiled
    /\ ~HasToken(Punct("openParen"))
    /\ \E n \in Tree :
            /\ nodes[n].type = "BinaryExpression"
            /\ nodes[n].right \in BinaryOperands(n)

\* Node n lies in the body of a filter that is flagged relative.
InRelativeFilterBody(n) ==
    \E f \in Tree :
        /\ nodes[f].type = "FilterExpression"
        /\ nodes[f].relative
        /\ n \in Subtree(nodes, nodes[f].expr)

\* C23: in every AST the parser returns, an Identifier with relative = true
\* occurs only inside the `expr` of a FilterExpression whose relative flag is
\* true; `.x` outside any bracket yields no such identifier.
C23_RelativeOnlyInFilterBody ==
    Compiled =>
        \A n \in Tree :
            (nodes[n].type = "Identifier" /\ nodes[n].relative)
                => InRelativeFilterBody(n)

\* The items of SequenceExpression n are whole trees, and each was built
\* from tokens that come before those of the next.
InSourceOrder(n) ==
    \A i \in DOMAIN nodes[n].expressions :
        /\ nodes[n].expressions[i] # 0
        /\ i > 1 =>
              \A a \in Subtree(nodes, nodes[n].expressions[i - 1]) :
                  \A b \in Subtree(nodes, nodes[n].expressions[i]) : a < b

\* The tokens end in a `;` that closes a complete item.
TrailingSemicolon ==
    /\ Len(tokens) >= 2
    /\ tokens[Len(tokens)].type = "semicolon"

----------------------------------------------------------------------------
(* What an evaluation does to the context.                                 *)

\* What context c holds under the name k.
Unbound == [t |-> "unbound"]
Binding(c, k) == IF k \in DOMAIN c THEN c[k] ELSE Unbound

\* The names whose binding the last evaluation changed.
Changed == {k \in DOMAIN ctx0 \cup DOMAIN context :
               Binding(context, k) # Binding(ctx0, k)}

\* The positions of the log at which an assignment to k returned.
Assigned(k) ==
    {i \in DOMAIN outcome.log :
        /\ outcome.log[i].ev = "return"
        /\ nodes[outcome.log[i].n].type = "AssignmentExpression"
        /\ nodes[nodes[outcome.log[i].n].left].name = k}

\* C25 as stated: evaluating `x = e` changes no binding other than x, and
\* evaluating an expression without an AssignmentExpression changes none.
C25_OnlyTargetChanges ==
    (Evaluated /\ ast # 0) =>
        /\ nodes[ast].type = "AssignmentExpression"
                => Changed \subseteq {nodes[nodes[ast].left].name}
        /\ (\A n \in Tree : nodes[n].type # "AssignmentExpression")
                => Changed = {}

\* C25: evaluation writes to the context only through assignment: a
\* binding the evaluation changed is the target of an AssignmentExpression
\* that it evaluated, and holds what the last such assignment returned; the
\* targets are those of every assignment evaluated, the ones inside e of
\* `x = e` included.  Without an AssignmentExpression no binding changes.
Thm_C25_WritesOnlyByAssignment ==
    (Evaluated /\ ast # 0) =>
        /\ \A k \in Changed :
                /\ Assigned(k) # {}
                /\ Binding(context, k)
                      = outcome.log[CHOOSE i \in Assigned(k) :
                                        \A j \in Assigned(k) : j <= i].val
        /\ (\A n \in Tree : nodes[n].type # "AssignmentExpression")
                => Changed = {}

\* An assignment was evaluated against a context that binds another name,
\* and changed its target.
Wit_C25_WritesOnlyByAssignment ==
    /\ Evaluated
    /\ ast # 0
    /\ nodes[ast].type = "AssignmentExpression"
    /\ Changed = {nodes[nodes[ast].left].name}
    /\ "x" \in DOMAIN ctx0
    /\ nodes[nodes[ast].left].name = "y"

\* The items from position i on evaluated one by one, each against the
\* context the one before left, up to the first that raises: `at` is where
\* that item starts (0: none raised), `before` the context it started from,
\* `after` the context when the evaluation ended.
RECURSIVE FirstFailure(_, _)
FirstFailure(i, ctx) ==
    LET r == evalSync(ItemAt(i), ctx)
        next == i + Len(ItemAt(i)) + 1
    IN  IF r.err # ""
        THEN [at |-> i, before |-> ctx, after |-> r.ctx]
        ELSE IF next > Len(tokens)
        THEN [at |-> 0, before |-> ctx, after |-> r.ctx]
        ELSE FirstFailure(next, r.ctx)

\* Item i reads `x = e`.
IsAssignmentItem(i) ==
    /\ i + 1 <= Len(tokens)
    /\ tokens[i].type = "identifier"
    /\ tokens[i + 1] = BinOp("=")

\* C26: when item ek of `e1; ...; en` raises, the evaluation raises, the
\* context is as e1..e(k-1) and the part of ek that ran left it, nothing
\* after ek having run, and the target of a failing `x = ek` keeps the
\* binding it had when ek started (the grammar being the one the
\* expression was compiled under).
C26_NoRollback ==
    (/\ Evaluated
     /\ tokens # <<>>
     /\ ops = DOMAIN elements
     /\ FirstFailure(1, ctx0).at # 0) =>
        /\ outcome.err # ""
        /\ context = FirstFailure(1, ctx0).after
        /\ IsAssignmentItem(FirstFailure(1, ctx0).at) =>
                Binding(context, tokens[FirstFailure(1, ctx0).at].value)
                    = Binding(FirstFailure(1, ctx0).before,
                              tokens[FirstFailure(1, ctx0).at].value)

----------------------------------------------------------------------------
\* The nodes of the arguments of FunctionCall n.
ArgumentNodes(n) ==
    UNION {Subtree(nodes, nodes[n].args[i]) : i \in DOMAIN nodes[n].args}

\* FunctionCall n names a callable its pool does not hold.
NotRegistered(n) ==
    /\ nodes[n].type = "FunctionCall"
    /\ nodes[n].name \notin DOMAIN grammarPool(nodes[n].pool)

\* C27: when a FunctionCall names a callable that is not registered, the
\* error is raised before any argument is evaluated: entering the call is
\* the last thing the evaluation does, no node of its arguments is entered,
\* no callable is invoked and no assignment made by them, and when the call
\* is the whole expression the context is as it was supplied.
Thm_C27_UnknownCallableBeforeArguments ==
    Evaluated =>
        \A n \in DOMAIN nodes :
            (NotRegistered(n) /\ Entered(n) >= 1) =>
                /\ outcome.err # ""
                /\ outcome.log[Len(outcome.log)] = Enter(n)
                /\ \A a \in ArgumentNodes(n) : Entered(a) = 0 /\ Calls(a) = {}
                /\ n = ast => context = ctx0

\* A call of an unregistered callable with an assignment as its argument
\* was evaluated.
Wit_C27_UnknownCallableBeforeArguments ==
    /\ Evaluated
    /\ ast # 0
    /\ NotRegistered(ast)
    /\ Entered(ast) = 1
    /\ \E a \in ArgumentNodes(ast) : nodes[a].type = "AssignmentExpression"

----------------------------------------------------------------------------
\* This step's evaluation ended as the evaluation st did.
EndsAs(st) ==
    /\ outcome'.val = st.val
    /\ outcome'.err = st.err
    /\ context' = st.ctx

----------------------------------------------------------------------------
\* The source reads `a.f(` ...: a call written on a dotted identifier.
ChainCall ==
    /\ Len(tokens) >= 4
    /\ tokens[1].type = "identifier"
    /\ tokens[2] = Punct("dot")
    /\ tokens[3].type = "identifier"
    /\ tokens[4] = Punct("openParen")

\* The same source without the chain subject and its dot: `f(` ...
CallAlone == SubSeq(tokens, 3, Len(tokens))

\* The last evaluation ended as the evaluation st did.
EndedAs(st) ==
    /\ outcome.val = st.val
    /\ outcome.err = st.err
    /\ context = st.ctx

\* C29: a call written on a dotted identifier keeps only the last name:
\* when the source `a.f(...)...` is compiled, the third node made is a
\* FunctionCall named f in the functions pool and is part of the AST, the
\* nodes made for a and for a.f are not part of it, a is never evaluated,
\* and the evaluation ends as that of `f(...)...` does.
Thm_C29_ChainCallKeepsLastName ==
    (Compiled /\ ChainCall) =>
        /\ nodes[1].type = "Identifier" /\ nodes[1].name = tokens[1].value
        /\ nodes[2].type = "Identifier" /\ nodes[2].from = 1
        /\ nodes[3].type = "FunctionCall"
        /\ nodes[3].name = tokens[3].value
        /\ nodes[3].pool = "functions"
        /\ 3 \in Tree
        /\ 1 \notin Tree
        /\ 2 \notin Tree
        /\ Evaluated => (Entered(1) = 0 /\ EndedAs(evalSync(CallAlone, ctx0)))

\* `x.add1(x)` was evaluated against {x: 5} and gave 6.
Wit_C29_ChainCallKeepsLastName ==
    /\ Evaluated
    /\ ChainCall
    /\ tokens[3].value = "add1"
    /\ "x" \in DOMAIN ctx0
    /\ ctx0["x"] = Num(5)
    /\ outcome.err = ""
    /\ outcome.val = Num(6)

----------------------------------------------------------------------------
\* This step is a then(resolved) call without a rejection handler.
ThenStep ==
    /\ calls' = calls + 1
    /\ lastCall'.op = "then"
    /\ ~lastCall'.handler

\* A PromiseSync never holds a defined value together with a defined error.
ValueOrError == promise.value = Undef \/ promise.error = Undef

\* C30: once a PromiseSync holds an error, whatever the reason, a then
\* call without a rejection handler leaves the error as it is and does not
\* invoke its resolved callback; and no PromiseSync ever holds a defined
\* value together with a defined error.
C30_RejectedStaysRejected ==
    /\ [][(ThenStep /\ promise.error # Undef) =>
             (promise'.error = promise.error /\ ~lastCall'.resolved)]_vars
    /\ []ValueOrError

====
